---------------------------- MODULE Spec2Model ----------------------------
(***************************************************************************)
(* Verification model of the FFPGA Mandelbrot generator                    *)
(* (src/C-FFPGAv2/ffpga.c, with the evaluator of src/C-FFPGA/ffpga.c).     *)
(*                                                                         *)
(* Numbers.  A C double is modelled as a fixed-point number: the integer v *)
(* stands for v / Scale.  Products are rounded to the nearest.  Two extra   *)
(* values stand for the IEEE specials the code can produce: NaN and +Inf.  *)
(* An IterationResult (the double returned by the evaluator) is modelled   *)
(* by its integer part, which is all that the (int) casts and the          *)
(* comparisons against the integer max_iter of the code observe.           *)
(***************************************************************************)
EXTENDS Integers, Sequences, FiniteSets, TLC

(***************************************************************************)
(* Bounds of the model.                                                    *)
(***************************************************************************)
FracBits == 12

MaxThreads == 2

GridMax == 8

MaxEvalIter == 12

Scale == 2 ^ FracBits

(***************************************************************************)
(* Program constants of src/C-FFPGAv2/ffpga.c.                             *)
(***************************************************************************)
ESCAPE_RADIUS_SQ == 4

BAILOUT_TEST == 256

SERIES_TERMS == 8

MIN_SERIES_ITER == 10

\* schedule(dynamic, 16): rows per chunk of the computation loop
ChunkRows == 16

(***************************************************************************)
(* double arithmetic                                                       *)
(***************************************************************************)
NaN == -(2 ^ 30) - (2 ^ 30 - 1)

PosInf == 2 ^ 30 + (2 ^ 30 - 1)

IsFinite(a) == a # NaN /\ a # PosInf

Abs(a) == IF a < 0 THEN -a ELSE a

FromInt(n) == n * Scale

\* a * b / Scale for a, b >= 0, rounded to the nearest, computed on the integer
\* and fractional halves of both factors
MulAbs(a, b) ==
    LET ah == a \div Scale
        al == a % Scale
        bh == b \div Scale
        bl == b % Scale
    IN  ah * bh * Scale + ah * bl + al * bh + (al * bl + Scale \div 2) \div Scale

\* In CHOOSE r \in {e : x \in {v}} : TRUE the name x stands for the value of
\* v, computed once, and the whole is the value of e: the operators below
\* take their arguments and their intermediate results this way.
FMulOf(a, b) ==
    IF a = NaN \/ b = NaN THEN NaN
    ELSE IF a = PosInf \/ b = PosInf
         THEN (IF a = 0 \/ b = 0 THEN NaN ELSE PosInf)
    ELSE IF (a < 0) = (b < 0) THEN MulAbs(Abs(a), Abs(b))
    ELSE -MulAbs(Abs(a), Abs(b))

FMul(a, b) ==
    CHOOSE r \in {FMulOf(aa, bb) : aa \in {a}, bb \in {b}} : TRUE

FAddOf(a, b) ==
    IF a = NaN \/ b = NaN THEN NaN
    ELSE IF a = PosInf \/ b = PosInf THEN PosInf
    ELSE a + b

FAdd(a, b) ==
    CHOOSE r \in {FAddOf(aa, bb) : aa \in {a}, bb \in {b}} : TRUE

FSubOf(a, b) ==
    IF a = NaN \/ b = NaN THEN NaN
    ELSE IF b = PosInf THEN NaN
    ELSE IF a = PosInf THEN PosInf
    ELSE a - b

FSub(a, b) ==
    CHOOSE r \in {FSubOf(aa, bb) : aa \in {a}, bb \in {b}} : TRUE

\* a / n for an int n converted to double; a > 0 and n = 0 give +Inf
FDivIntOf(a, n) ==
    IF a = NaN THEN NaN
    ELSE IF n = 0 THEN (IF a = 0 THEN NaN ELSE PosInf)
    ELSE IF a = PosInf THEN PosInf
    ELSE IF a >= 0 THEN a \div n ELSE -((-a) \div n)

FDivInt(a, n) ==
    CHOOSE r \in {FDivIntOf(aa, nn) : aa \in {a}, nn \in {n}} : TRUE

\* comparisons: every comparison with a NaN operand is false
FLt(a, b) == a # NaN /\ b # NaN /\ a < b

FGt(a, b) == a # NaN /\ b # NaN /\ a > b

FLe(a, b) == a # NaN /\ b # NaN /\ a <= b

TwiceOf(a) == IF IsFinite(a) THEN 2 * a ELSE a

Twice(a) ==
    CHOOSE r \in {TwiceOf(aa) : aa \in {a}} : TRUE

Quarter == Scale \div 4

Sixteenth == Scale \div 16

(***************************************************************************)
(* quick_mandelbrot_check: 1 if the point is in the main cardioid or in    *)
(* the period-2 bulb, 0 if it needs iteration.                             *)
(***************************************************************************)
\* the bulb test with the radius 2 in place of 1/4
quick_mandelbrot_check_wide(cr, ci) ==
    LET x_quarter == FSub(cr, Quarter)
        q == FAdd(FMul(x_quarter, x_quarter), FMul(ci, ci))
        bulb_x == FAdd(cr, FromInt(1))
    IN  IF FLt(FMul(q, FAdd(q, x_quarter)), FMul(FMul(Quarter, ci), ci)) THEN 1
        ELSE IF FLt(FAdd(FMul(bulb_x, bulb_x), FMul(ci, ci)), FromInt(4)) THEN 1
        ELSE 0

quick_mandelbrot_check(cr, ci) ==
    LET x_quarter == FSub(cr, Quarter)
        q == FAdd(FMul(x_quarter, x_quarter), FMul(ci, ci))
        bulb_x == FAdd(cr, FromInt(1))
    IN  IF FLt(FMul(q, FAdd(q, x_quarter)), FMul(FMul(Quarter, ci), ci)) THEN 1
        ELSE IF FLt(FAdd(FMul(bulb_x, bulb_x), FMul(ci, ci)), Sixteenth) THEN 1
        ELSE 0

(***************************************************************************)
(* series_approximation.  SeriesLoop is the for loop of seed iterations:   *)
(* it yields the record of z and dz after the loop, with esc = TRUE when   *)
(* the loop left through "return -1".                                      *)
(***************************************************************************)
SeedCount(max_iter) ==
    IF SERIES_TERMS < max_iter \div 4 THEN SERIES_TERMS ELSE max_iter \div 4

RECURSIVE SeriesLoop(_, _, _, _, _, _, _, _)
SeriesLoop(i, zr, zi, dzr, dzi, cr, ci, max_iter) ==
    IF ~(i < SERIES_TERMS /\ i < max_iter \div 4)
    THEN [esc |-> FALSE, zr |-> zr, zi |-> zi, dzr |-> dzr, dzi |-> dzi, n |-> i]
    ELSE LET new_dz_real == FAdd(Twice(FSub(FMul(zr, dzr), FMul(zi, dzi))), FromInt(1))
             new_dz_imag == Twice(FAdd(FMul(zr, dzi), FMul(zi, dzr)))
             z_real_sq == FMul(zr, zr)
             z_imag_sq == FMul(zi, zi)
             new_zi == FAdd(Twice(FMul(zr, zi)), ci)
             new_zr == FAdd(FSub(z_real_sq, z_imag_sq), cr)
         IN  IF FGt(FAdd(z_real_sq, z_imag_sq), FromInt(ESCAPE_RADIUS_SQ))
             THEN [esc |-> TRUE, zr |-> new_zr, zi |-> new_zi,
                   dzr |-> new_dz_real, dzi |-> new_dz_imag, n |-> i + 1]
             ELSE CHOOSE r \in {SeriesLoop(i + 1, a, b, c, d, cr, ci, max_iter) :
                                 a \in {new_zr}, b \in {new_zi},
                                 c \in {new_dz_real}, d \in {new_dz_imag}} : TRUE

\* the components of dz beyond which |dz|^2 exceeds 4 / |z|^2 for every
\* non-zero representable z
DzLimit == FromInt(2 ^ (FracBits \div 2 + 2))

\* the number of k in 1..limit with p * d^k <= 4 (up) or >= 4 (down): the
\* integer part of log(4 / p) / log(d), cut off at limit
RECURSIVE PowerSteps(_, _, _, _, _)
PowerSteps(p, d, up, k, limit) ==
    CHOOSE r \in
      {IF k >= limit THEN k
       ELSE IF up /\ next <= FromInt(4) /\ next > p
            THEN PowerSteps(next, d, up, k + 1, limit)
       ELSE IF up /\ next <= FromInt(4) THEN limit
       ELSE IF ~up /\ next >= FromInt(4) /\ next < p
            THEN PowerSteps(next, d, up, k + 1, limit)
       ELSE IF ~up /\ next >= FromInt(4) THEN limit
       ELSE k :
       next \in {FMul(p, d)}} : TRUE

\* the integer part of estimated_escape = log(ESCAPE_RADIUS / |z|) / log(|dz|)
\* when 0 < estimated_escape < bound, and -1 in every other case (not
\* positive, not below bound, infinite or NaN)
EstimatedEscapeOf(zr, zi, dzr, dzi, bound) ==
    IF ~(IsFinite(zr) /\ IsFinite(zi) /\ IsFinite(dzr) /\ IsFinite(dzi)) THEN -1
    ELSE LET z2 == FMul(zr, zr) + FMul(zi, zi)
             big == Abs(dzr) > DzLimit \/ Abs(dzi) > DzLimit
             d2 == IF big THEN 0 ELSE FMul(dzr, dzr) + FMul(dzi, dzi)
             four == FromInt(4)
             one == FromInt(1)
         IN  IF z2 = 0 \/ z2 = four \/ bound <= 0 THEN -1
             ELSE IF big THEN (IF z2 < four THEN 0 ELSE -1)
             ELSE IF d2 = one THEN -1
             ELSE IF z2 < four /\ d2 > one
                  THEN (IF d2 > 4 * Scale * Scale THEN 0
                        ELSE LET k == PowerSteps(z2, d2, TRUE, 0, bound)
                             IN  IF k < bound THEN k ELSE -1)
             ELSE IF z2 > four /\ d2 < one
                  THEN LET k == PowerSteps(z2, d2, FALSE, 0, bound)
                       IN  IF k < bound THEN k ELSE -1
             ELSE -1

EstimatedEscape(zr, zi, dzr, dzi, bound) ==
    CHOOSE r \in {EstimatedEscapeOf(a, b, c, d, n) :
                    a \in {zr}, b \in {zi}, c \in {dzr}, d \in {dzi},
                    n \in {bound}} : TRUE

\* the estimate accepted up to max_iter instead of max_iter - SERIES_TERMS
series_approximation_unbounded(cr, ci, max_iter) ==
    IF max_iter < MIN_SERIES_ITER THEN -1
    ELSE CHOOSE r \in
           {LET dz_magnitude_pos ==
                    IsFinite(s.dzr) /\ IsFinite(s.dzi) /\ (s.dzr # 0 \/ s.dzi # 0)
                est == EstimatedEscape(s.zr, s.zi, s.dzr, s.dzi, max_iter)
            IN  IF s.esc THEN -1
                ELSE IF dz_magnitude_pos /\ est >= 0 THEN SERIES_TERMS + est
                ELSE -1 :
            s \in {SeriesLoop(0, 0, 0, FromInt(1), 0, cr, ci, max_iter)}} : TRUE

\* the integer part of the returned estimate, or -1
series_approximation(cr, ci, max_iter) ==
    IF max_iter < MIN_SERIES_ITER THEN -1
    ELSE CHOOSE r \in
           {LET dz_magnitude_pos ==
                    IsFinite(s.dzr) /\ IsFinite(s.dzi) /\ (s.dzr # 0 \/ s.dzi # 0)
                est == EstimatedEscape(s.zr, s.zi, s.dzr, s.dzi, max_iter - SERIES_TERMS)
            IN  IF s.esc THEN -1
                ELSE IF dz_magnitude_pos /\ est >= 0 THEN SERIES_TERMS + est
                ELSE -1 :
            s \in {SeriesLoop(0, 0, 0, FromInt(1), 0, cr, ci, max_iter)}} : TRUE

(***************************************************************************)
(* The smoothing term.  CeilSmooth(m2) is the least integer not below      *)
(* log2(0.5 * log(m2)), so that the integer part of                        *)
(* iter + 1.0 - log2(0.5 * log(m2)) is iter + 1 - CeilSmooth(m2).  The     *)
(* thresholds are exp(2^(k+1)) for k = -2 .. 2, to three decimals.         *)
(***************************************************************************)
Dec(whole, milli) == whole * Scale + (milli * Scale) \div 1000

CeilSmooth(m2) ==
    IF m2 <= Dec(1, 648) THEN -2
    ELSE IF m2 <= Dec(2, 718) THEN -1
    ELSE IF m2 <= Dec(7, 389) THEN 0
    ELSE IF m2 <= Dec(54, 598) THEN 1
    ELSE IF m2 <= Dec(2980, 957) THEN 2
    ELSE 3

(***************************************************************************)
(* calculate_mandelbrot_optimized.  MainLoop is the while loop; it yields  *)
(* iter and z when the loop is left.                                       *)
(***************************************************************************)
\* the escape test against ESCAPE_RADIUS_SQ instead of BAILOUT_TEST
LoopGuardRadius(zr, zi, iter, max_iter) ==
    /\ iter < max_iter
    /\ ~FGt(FAdd(FMul(zr, zr), FMul(zi, zi)), FromInt(ESCAPE_RADIUS_SQ))

LoopGuard(zr, zi, iter, max_iter) ==
    /\ iter < max_iter
    /\ ~FGt(FAdd(FMul(zr, zr), FMul(zi, zi)), FromInt(BAILOUT_TEST))

NextZi(zr, zi, ci) == FAdd(Twice(FMul(zr, zi)), ci)

NextZr(zr, zi, cr) == FAdd(FSub(FMul(zr, zr), FMul(zi, zi)), cr)

RECURSIVE MainLoop(_, _, _, _, _, _)
MainLoop(zr, zi, iter, cr, ci, max_iter) ==
    IF LoopGuard(zr, zi, iter, max_iter)
    THEN CHOOSE r \in {MainLoop(a, b, iter + 1, cr, ci, max_iter) :
                        a \in {NextZr(zr, zi, cr)}, b \in {NextZi(zr, zi, ci)}} : TRUE
    ELSE [iter |-> iter, zr |-> zr, zi |-> zi]

\* the code after the loop: the smoothed count, clamped at 0, or max_iter
SmoothResult(iter, zr, zi, max_iter) ==
    IF iter < max_iter
    THEN LET final_magnitude_sq == FAdd(FMul(zr, zr), FMul(zi, zi))
             smooth_iter == iter + 1 - CeilSmooth(final_magnitude_sq)
         IN  IF ~IsFinite(final_magnitude_sq) THEN 0
             ELSE IF smooth_iter > 0 THEN smooth_iter ELSE 0
    ELSE max_iter

\* the call as a whole: the return statement it leaves through and the
\* value returned
Outcome(cr, ci, max_iter) ==
    IF quick_mandelbrot_check(cr, ci) = 1
    THEN [path |-> "quick", value |-> max_iter]
    ELSE CHOOSE r \in
           {IF series_result > 0
              THEN [path |-> "series", value |-> series_result]
              ELSE CHOOSE o \in
                     {[path |-> IF l.iter < max_iter THEN "escape" ELSE "limit",
                       value |-> SmoothResult(l.iter, l.zr, l.zi, max_iter)] :
                      l \in {MainLoop(0, 0, 0, cr, ci, max_iter)}} : TRUE :
            series_result \in {IF max_iter >= MIN_SERIES_ITER
                               THEN series_approximation(cr, ci, max_iter)
                               ELSE -1}} : TRUE

\* the call with the quick_mandelbrot_check branch left out: the series
\* branch, then the main loop
OutcomeWithoutQuickCheck(cr, ci, max_iter) ==
    CHOOSE r \in
      {IF series_result > 0
         THEN [path |-> "series", value |-> series_result]
         ELSE CHOOSE o \in
                {[path |-> IF l.iter < max_iter THEN "escape" ELSE "limit",
                  value |-> SmoothResult(l.iter, l.zr, l.zi, max_iter)] :
                 l \in {MainLoop(0, 0, 0, cr, ci, max_iter)}} : TRUE :
       series_result \in {IF max_iter >= MIN_SERIES_ITER
                          THEN series_approximation(cr, ci, max_iter)
                          ELSE -1}} : TRUE

EvalPath(cr, ci, max_iter) == Outcome(cr, ci, max_iter).path

calculate_mandelbrot_optimized(cr, ci, max_iter) == Outcome(cr, ci, max_iter).value

(***************************************************************************)
(* src/C-FFPGA/ffpga.c: quick_ffpga_check and calculate_ffpga.             *)
(* With r = sqrt(r_sq) and cos(atan2(ci, x)) = x / r, the cardioid test    *)
(* r_sq < (0.25 * (1 - x / r))^2 is 4 * r_sq + x < r, decided on squares.  *)
(***************************************************************************)
quick_ffpga_check(cr, ci) ==
    IF ~(IsFinite(cr) /\ IsFinite(ci)) THEN 0
    ELSE LET x_shifted == cr + FromInt(1)
             r_sq == FMul(x_shifted, x_shifted) + FMul(ci, ci)
             lhs == 4 * r_sq + x_shifted
             bulb_x == cr + FromInt(1) + Quarter
         IN  IF r_sq < Sixteenth /\ r_sq > 0
                /\ (lhs < 0 \/ FMul(lhs, lhs) < r_sq) THEN 1
             ELSE IF FMul(bulb_x, bulb_x) + FMul(ci, ci) < Sixteenth THEN 1
             ELSE 0

FfpgaGuard(zr_sq, zi_sq, iter, max_iter) ==
    iter < max_iter /\ FLe(FAdd(zr_sq, zi_sq), FromInt(ESCAPE_RADIUS_SQ))

RECURSIVE FfpgaLoop(_, _, _, _, _, _, _, _)
FfpgaLoop(zr, zi, zr_sq, zi_sq, iter, cr, ci, max_iter) ==
    IF FfpgaGuard(zr_sq, zi_sq, iter, max_iter)
    THEN CHOOSE r \in {FfpgaLoop(a, b, c, d, iter + 1, cr, ci, max_iter) :
                        a \in {NextZr(zr, zi, cr)}, b \in {NextZi(zr, zi, ci)},
                        c \in {FMul(zr, zr)}, d \in {FMul(zi, zi)}} : TRUE
    ELSE [iter |-> iter, zr |-> zr, zi |-> zi]

\* the code after the loop of calculate_ffpga: no clamp
FfpgaResult(iter, zr, zi, max_iter) ==
    IF iter < max_iter
    THEN LET magnitude_sq == FAdd(FMul(zr, zr), FMul(zi, zi))
         IN  IF ~IsFinite(magnitude_sq) THEN 0
             ELSE iter + 1 - CeilSmooth(magnitude_sq)
    ELSE max_iter

calculate_ffpga(cr, ci, max_iter) ==
    IF quick_ffpga_check(cr, ci) = 1 THEN max_iter
    ELSE LET l == FfpgaLoop(0, 0, 0, 0, 0, cr, ci, max_iter)
         IN  FfpgaResult(l.iter, l.zr, l.zi, max_iter)

(***************************************************************************)
(* State.                                                                  *)
(***************************************************************************)
VARIABLES
    params,           \* MandelbrotParams, as left by init_parameters
    main_pc,          \* position of main / generate_mandelbrot
    image_st,         \* image_data: "none", "live", "null" or "freed"
    image_data,       \* byte index -> byte written, Unwritten before
    iter_st,          \* iteration_data: "none", "live", "null" or "freed"
    iteration_data,   \* pixel index -> IterationResult, Unwritten before
    stats,            \* PerformanceStats: pixels_optimized, series_skips
    next_row,         \* dynamic schedule: first row not handed out yet
    worker,           \* thread -> its position, its private variables and the
                      \* set of indices it has written in the running loop
    histogram,        \* NoHistogram, or counts / total_pixels / max_count
    last_progress,    \* static int last_progress
    write_result,     \* result of stbi_write_png, -1 before the call
    exit_status,      \* status main ends with, -1 while it runs
    iter_writes,      \* pixel index -> number of writes of iteration_data there
    image_writes,     \* byte index -> number of writes of image_data there
    hist_st,          \* the Histogram: none / live / null (allocation failed) / freed
    frees,            \* buffer -> number of calls of free on it
    encoder_calls,    \* number of calls of stbi_write_png
    e_pc,             \* one evaluator call, step by step: position
    e_cr, e_ci, e_max,        \* its arguments
    e_fn,                     \* the evaluator called
    e_zr, e_zi, e_iter,       \* its locals
    e_zr_sq, e_zi_sq,         \* the cached squares of calculate_ffpga
    e_result, e_path,         \* its return value and return statement
    sz_fn,            \* the size computations of one frame: generate_mandelbrot
                      \* or generate_ffpga
    sz_pc,            \* their position
    sz_width, sz_height,      \* params->width, params->height
    sz_image_size,    \* size_t image_size, the bytes asked for image_data
    sz_iter_count,    \* the doubles asked for iteration_data
    sz_total,         \* int total_pixels
    sz_buffer,        \* the buffer of the last store
    sz_offset,        \* the offset of the last store
    sz_overflow,      \* the int expressions that have overflowed so far
    nav_history,      \* NavigationHistory: this.history
    nav_currentIndex, \* this.currentIndex
    nav_view,         \* the viewport of the renderer
    nav_saves,        \* number of positions saved so far
    nav_last          \* the last method that has run

render_vars == <<params, main_pc, image_st, image_data, iter_st, iteration_data,
                 stats, next_row, worker, histogram, last_progress, write_result,
                 exit_status, iter_writes, image_writes, hist_st, frees, encoder_calls>>

eval_vars == <<e_pc, e_cr, e_ci, e_max, e_fn, e_zr, e_zi, e_iter, e_zr_sq, e_zi_sq,
               e_result, e_path>>

size_vars == <<sz_fn, sz_pc, sz_width, sz_height, sz_image_size, sz_iter_count,
               sz_total, sz_buffer, sz_offset, sz_overflow>>

nav_vars == <<nav_history, nav_currentIndex, nav_view, nav_saves, nav_last>>

vars == <<render_vars, eval_vars, size_vars, nav_vars>>

Unwritten == -1

NoHistogram == [counts |-> <<>>, total_pixels |-> -1, max_count |-> -1]

Black == <<0, 0, 0>>

(***************************************************************************)
(* Inputs: the command lines the model explores.                           *)
(***************************************************************************)
Widths == {0, 1, 2}

Heights == {0, 1, ChunkRows + 1}

IterChoices == {0, 12}

ZoomChoices == {0, FromInt(1)}

CenterYChoices == {0, -(3 * Scale) \div 2}

ThreadArgs == 0 .. MaxThreads

DEFAULT_CENTER_X == -(Scale \div 2)

\* general division a / b of doubles, b finite and non-zero
FDivOf(a, b) ==
    IF (a < 0) = (b < 0) THEN (Abs(a) * Scale) \div Abs(b)
    ELSE -((Abs(a) * Scale) \div Abs(b))

FDiv(a, b) ==
    CHOOSE r \in {FDivOf(aa, bb) : aa \in {a}, bb \in {b}} : TRUE

\* n * a for an int n converted to double
IntMulOf(n, a) ==
    IF a = NaN THEN NaN
    ELSE IF a = PosInf THEN (IF n = 0 THEN NaN ELSE PosInf)
    ELSE n * a

IntMul(n, a) ==
    CHOOSE r \in {IntMulOf(nn, aa) : nn \in {n}, aa \in {a}} : TRUE

\* the bounds init_parameters derives from the centre and the zoom
Bounds(width, height, zoom, center_x, center_y) ==
    LET aspect_ratio == FDiv(FromInt(width), FromInt(height))
        base_range == FDiv(FromInt(3), zoom)
        x_range == FMul(base_range, aspect_ratio)
        y_range == base_range
    IN  [x_min |-> center_x - FDivInt(x_range, 2),
         x_max |-> center_x + FDivInt(x_range, 2),
         y_min |-> center_y - FDivInt(y_range, 2),
         y_max |-> center_y + FDivInt(y_range, 2)]

Threads == 1 .. MaxThreads

Team == 1 .. params.num_threads

total_pixels == params.width * params.height

Pixels == 0 .. total_pixels - 1

x_scale == FDivInt(FSub(params.x_max, params.x_min), params.width - 1)

y_scale == FDivInt(FSub(params.y_max, params.y_min), params.height - 1)

PixelCr(px) == FAdd(params.x_min, IntMul(px, x_scale))

PixelCi(py) == FAdd(params.y_min, IntMul(py, y_scale))

\* the row offset alone: the column is dropped from the index
pixel_index_row(py, px) == py * params.width

pixel_index(py, px) == py * params.width + px

IdleWorker == [pc |-> "off", py |-> 0, px |-> 0, row_end |-> 0, reg |-> 0,
               progress_pixels |-> 0, i |-> 0, hi |-> 0, wrote |-> {}]

EvalIdle ==
    /\ e_pc = "off"
    /\ e_cr = 0 /\ e_ci = 0 /\ e_max = 0 /\ e_fn = "none"
    /\ e_zr = 0 /\ e_zi = 0 /\ e_iter = 0
    /\ e_zr_sq = 0 /\ e_zi_sq = 0
    /\ e_result = -1 /\ e_path = "none"

SizeIdle ==
    /\ sz_fn = "none" /\ sz_pc = "off"
    /\ sz_width = 0 /\ sz_height = 0
    /\ sz_image_size = <<0, 0>> /\ sz_iter_count = <<0, 0>>
    /\ sz_total = <<0, 0>> /\ sz_buffer = "none"
    /\ sz_offset = <<0, 0>> /\ sz_overflow = {}

NavIdle ==
    /\ nav_history = <<>> /\ nav_currentIndex = -1
    /\ nav_view = 0 /\ nav_saves = 0 /\ nav_last = "off"

\* main has parsed argv: the values of width, height, max_iterations, zoom,
\* center_y and num_threads are the arguments given
Init ==
    /\ \E width \in Widths, height \in Heights, max_iterations \in IterChoices,
          zoom \in ZoomChoices, center_y \in CenterYChoices, num_threads \in ThreadArgs :
          params = [width |-> width, height |-> height,
                    max_iterations |-> max_iterations, zoom |-> zoom,
                    center_x |-> DEFAULT_CENTER_X, center_y |-> center_y,
                    num_threads |-> num_threads,
                    x_min |-> 0, x_max |-> 0, y_min |-> 0, y_max |-> 0]
    /\ main_pc = "init_parameters"
    /\ image_st = "none" /\ image_data = <<>>
    /\ iter_st = "none" /\ iteration_data = <<>>
    /\ stats = [pixels_optimized |-> 0, series_skips |-> 0]
    /\ next_row = 0
    /\ worker = [t \in Threads |-> IdleWorker]
    /\ histogram = NoHistogram
    /\ last_progress = -1
    /\ write_result = -1
    /\ exit_status = -1
    /\ iter_writes = <<>> /\ image_writes = <<>>
    /\ hist_st = "none"
    /\ frees = [image |-> 0, iter |-> 0, hist |-> 0]
    /\ encoder_calls = 0
    /\ EvalIdle
    /\ SizeIdle
    /\ NavIdle

(***************************************************************************)
(* main and generate_mandelbrot, up to the computation loop.               *)
(***************************************************************************)
\* the validation with the test of max_iterations left out
InvalidParamsNoIterTest(p) == p.width <= 0 \/ p.height <= 0 \/ p.zoom <= 0

\* the three validation tests of init_parameters
InvalidParams(p) ==
    p.width <= 0 \/ p.height <= 0 \/ p.max_iterations <= 0 \/ p.zoom <= 0

\* init_parameters: validation (exit(1)), thread auto-detection, bounds
init_parameters ==
    /\ main_pc = "init_parameters"
    /\ IF InvalidParams(params)
       THEN /\ main_pc' = "exited"
            /\ exit_status' = 1
            /\ UNCHANGED params
       ELSE /\ main_pc' = "allocate"
            /\ params' =
                 LET b == Bounds(params.width, params.height, params.zoom,
                                 params.center_x, params.center_y)
                 IN  [params EXCEPT
                        !.num_threads = IF @ <= 0 THEN MaxThreads ELSE @,
                        !.x_min = b.x_min, !.x_max = b.x_max,
                        !.y_min = b.y_min, !.y_max = b.y_max]
            /\ UNCHANGED exit_status
    /\ UNCHANGED <<image_st, image_data, iter_st, iteration_data, stats, next_row,
                   worker, histogram, last_progress, write_result,
                   iter_writes, image_writes>>
    /\ UNCHANGED <<hist_st, frees, encoder_calls>>
    /\ UNCHANGED <<eval_vars, size_vars, nav_vars>>

\* the null test with && in place of ||
AllocationFailedBoth(image_ok, iter_ok) == ~image_ok /\ ~iter_ok

\* if (!image_data || !iteration_data)
AllocationFailed(image_ok, iter_ok) == ~image_ok \/ ~iter_ok

\* main with the result of generate_mandelbrot ignored
MainStatusIgnored(generated) == 0

\* the status main returns, from the value generate_mandelbrot returned
MainStatus(generated) == IF generated = 1 THEN 0 ELSE 1

\* the two malloc calls and the null test; on success the statistics are
\* zeroed and the team of the computation loop starts
Allocate ==
    /\ main_pc = "allocate"
    /\ \E image_ok \in BOOLEAN, iter_ok \in BOOLEAN :
          IF ~AllocationFailed(image_ok, iter_ok)
          THEN /\ image_st' = IF image_ok THEN "live" ELSE "null"
               /\ iter_st' = IF iter_ok THEN "live" ELSE "null"
               /\ UNCHANGED frees
               /\ image_data' = [b \in 0 .. 3 * total_pixels - 1 |-> Unwritten]
               /\ iteration_data' = [i \in Pixels |-> Unwritten]
               /\ image_writes' = [b \in 0 .. 3 * total_pixels - 1 |-> 0]
               /\ iter_writes' = [i \in Pixels |-> 0]
               /\ stats' = [pixels_optimized |-> 0, series_skips |-> 0]
               /\ next_row' = 0
               /\ worker' = [t \in Threads |->
                               IF t \in Team THEN [IdleWorker EXCEPT !.pc = "idle"]
                               ELSE IdleWorker]
               /\ main_pc' = "compute"
               /\ UNCHANGED exit_status
          ELSE /\ image_st' = IF image_ok THEN "freed" ELSE "null"
               /\ iter_st' = IF iter_ok THEN "freed" ELSE "null"
               /\ frees' = [frees EXCEPT !.image = IF image_ok THEN @ + 1 ELSE @,
                                         !.iter = IF iter_ok THEN @ + 1 ELSE @]
               /\ main_pc' = "exited"
               /\ exit_status' = MainStatus(0)
               /\ UNCHANGED <<image_data, iteration_data, image_writes, iter_writes,
                              stats, next_row, worker>>
    /\ UNCHANGED <<params, histogram, last_progress, write_result, hist_st,
                   encoder_calls>>
    /\ UNCHANGED <<eval_vars, size_vars, nav_vars>>

(***************************************************************************)
(* The computation loop:                                                   *)
(*   #pragma omp parallel for schedule(dynamic, 16) reduction(+:...)       *)
(* A thread of the team takes the next chunk of ChunkRows rows, evaluates  *)
(* its pixels row by row, and waits at the barrier of the loop once no     *)
(* chunk is left.                                                          *)
(***************************************************************************)
\* a barrier that lets the team through when its first thread arrives
TeamAtAny(pc) == \E t \in Team : worker[t].pc = pc

\* a barrier that counts every thread the runtime could start, in the team
\* or not
TeamAtAllThreads(pc) == \A t \in Threads : worker[t].pc = pc

\* the condition of an implicit barrier: every thread of the team is there
TeamAt(pc) == \A t \in Team : worker[t].pc = pc

ChunkEnd(first) ==
    IF first + ChunkRows < params.height THEN first + ChunkRows ELSE params.height

TakeChunk(t) ==
    /\ main_pc = "compute"
    /\ worker[t].pc = "idle"
    /\ next_row < params.height
    /\ worker' = [worker EXCEPT ![t].pc = "eval", ![t].py = next_row, ![t].px = 0,
                                ![t].row_end = ChunkEnd(next_row)]
    /\ next_row' = ChunkEnd(next_row)
    /\ UNCHANGED <<params, main_pc, image_st, image_data, iter_st, iteration_data,
                   stats, histogram, last_progress, write_result, exit_status,
                   iter_writes, image_writes>>
    /\ UNCHANGED <<hist_st, frees, encoder_calls>>
    /\ UNCHANGED <<eval_vars, size_vars, nav_vars>>

NoChunkLeft(t) ==
    /\ main_pc = "compute"
    /\ worker[t].pc = "idle"
    /\ next_row >= params.height
    /\ worker' = [worker EXCEPT ![t].pc = "barrier"]
    /\ UNCHANGED <<params, main_pc, image_st, image_data, iter_st, iteration_data,
                   stats, next_row, histogram, last_progress, write_result,
                   exit_status, iter_writes, image_writes>>
    /\ UNCHANGED <<hist_st, frees, encoder_calls>>
    /\ UNCHANGED <<eval_vars, size_vars, nav_vars>>

\* the progress block after a row, executed by the master thread only
MasterProgress(t, progress_pixels) ==
    LET progress_percent == (100 * progress_pixels) \div total_pixels
    IN  IF t = 1 /\ progress_percent # last_progress /\ progress_percent % 10 = 0
        THEN progress_percent
        ELSE last_progress

\* the worker after the store of pixel (py, px): next pixel, next row (with
\* the progress block), or back to the scheduler
Advance(w, t) ==
    IF w.px + 1 < params.width
    THEN [w EXCEPT !.pc = "eval", !.px = @ + 1,
                   !.wrote = @ \cup {pixel_index(w.py, w.px)}]
    ELSE LET done == [w EXCEPT !.progress_pixels = @ + params.width,
                               !.wrote = @ \cup {pixel_index(w.py, w.px)}]
         IN  IF w.py + 1 < w.row_end
             THEN [done EXCEPT !.pc = "eval", !.py = @ + 1, !.px = 0]
             ELSE [done EXCEPT !.pc = "idle"]

AdvanceProgress(w, t) ==
    IF w.px + 1 < params.width THEN last_progress
    ELSE MasterProgress(t, w.progress_pixels + params.width)

\* the store with px and py shared by the team instead of private: every
\* thread indexes with the loop variables of the first
StorePixelSharedLoopVars(t, smooth_iter) ==
    LET w == worker[t]
        idx == pixel_index(worker[1].py, worker[1].px)
    IN  /\ iteration_data' = [iteration_data EXCEPT ![idx] = smooth_iter]
        /\ iter_writes' = [iter_writes EXCEPT ![idx] = @ + 1]
        /\ last_progress' = AdvanceProgress(w, t)

\* the store in which a progress report overwrites the value stored: the
\* percentage goes to iteration_data whenever the master reports
StorePixelProgressClobbers(t, smooth_iter) ==
    LET w == worker[t]
        idx == pixel_index(w.py, w.px)
    IN  /\ iteration_data' = [iteration_data EXCEPT ![idx] =
                                 IF AdvanceProgress(w, t) # last_progress
                                 THEN AdvanceProgress(w, t) ELSE smooth_iter]
        /\ iter_writes' = [iter_writes EXCEPT ![idx] = @ + 1]
        /\ last_progress' = AdvanceProgress(w, t)

StorePixel(t, smooth_iter) ==
    LET w == worker[t]
        idx == pixel_index(w.py, w.px)
    IN  /\ iteration_data' = [iteration_data EXCEPT ![idx] = smooth_iter]
        /\ iter_writes' = [iter_writes EXCEPT ![idx] = @ + 1]
        /\ last_progress' = AdvanceProgress(w, t)

\* one call of calculate_mandelbrot_optimized and the store of its result.
\* On the two optimisation paths the call first does stats->...++, a load
\* and a store of the shared counter: the load happens here, the store and
\* the rest of the iteration in IncrementStat.
EvalPixel(t) ==
    /\ main_pc = "compute"
    /\ worker[t].pc = "eval"
    /\ \E path \in {EvalPath(PixelCr(worker[t].px), PixelCi(worker[t].py),
                              params.max_iterations)} :
       \E w \in {worker[t]} :
       \E cr \in {PixelCr(w.px)}, ci \in {PixelCi(w.py)} :
           IF path = "quick"
           THEN /\ worker' = [worker EXCEPT ![t].pc = "inc_optimized",
                                            ![t].reg = stats.pixels_optimized]
                /\ UNCHANGED <<iteration_data, iter_writes, last_progress>>
           ELSE IF path = "series"
           THEN /\ worker' = [worker EXCEPT ![t].pc = "inc_series",
                                            ![t].reg = stats.series_skips]
                /\ UNCHANGED <<iteration_data, iter_writes, last_progress>>
           ELSE /\ \E value \in {calculate_mandelbrot_optimized(cr, ci,
                                                        params.max_iterations)} :
                       StorePixel(t, value)
                /\ worker' = [worker EXCEPT ![t] = Advance(w, t)]
    /\ UNCHANGED <<params, main_pc, image_st, image_data, iter_st, stats, next_row,
                   histogram, write_result, exit_status, image_writes>>
    /\ UNCHANGED <<hist_st, frees, encoder_calls>>
    /\ UNCHANGED <<eval_vars, size_vars, nav_vars>>

IncrementStat(t) ==
    /\ main_pc = "compute"
    /\ worker[t].pc \in {"inc_optimized", "inc_series"}
    /\ \E w \in {worker[t]} :
       \E cr \in {PixelCr(w.px)}, ci \in {PixelCi(w.py)} :
           /\ stats' = IF w.pc = "inc_optimized"
                       THEN [stats EXCEPT !.pixels_optimized = w.reg + 1]
                       ELSE [stats EXCEPT !.series_skips = w.reg + 1]
           /\ \E value \in {calculate_mandelbrot_optimized(cr, ci,
                                                   params.max_iterations)} :
                  StorePixel(t, value)
           /\ worker' = [worker EXCEPT ![t] = Advance(w, t)]
    /\ UNCHANGED <<params, main_pc, image_st, image_data, iter_st, next_row,
                   histogram, write_result, exit_status, image_writes>>
    /\ UNCHANGED <<hist_st, frees, encoder_calls>>
    /\ UNCHANGED <<eval_vars, size_vars, nav_vars>>

\* the implicit barrier at the end of the computation loop; the private
\* variables of the threads end with the loop
ComputeBarrier ==
    /\ main_pc = "compute"
    /\ TeamAt("barrier")
    /\ main_pc' = "histogram"
    /\ worker' = [t \in Threads |-> IdleWorker]
    /\ UNCHANGED <<params, image_st, image_data, iter_st, iteration_data, stats,
                   next_row, histogram, last_progress, write_result,
                   exit_status, iter_writes, image_writes>>
    /\ UNCHANGED <<hist_st, frees, encoder_calls>>
    /\ UNCHANGED <<eval_vars, size_vars, nav_vars>>

(***************************************************************************)
(* build_histogram                                                         *)
(***************************************************************************)
\* the loop with the test iter_bucket <= max_iter: set members are counted
RECURSIVE HistogramLoopInclusive(_, _, _, _)
HistogramLoopInclusive(i, hist, data, max_iter) ==
    IF ~(i < total_pixels) THEN hist
    ELSE LET iter_bucket == data[i]
         IN  IF iter_bucket <= max_iter
             THEN LET counted ==
                        IF iter_bucket \in DOMAIN hist.counts
                        THEN [hist.counts EXCEPT ![iter_bucket] = @ + 1]
                        ELSE hist.counts
                  IN  HistogramLoopInclusive(i + 1,
                        [counts |-> counted,
                         total_pixels |-> hist.total_pixels + 1,
                         max_count |-> hist.max_count],
                        data, max_iter)
             ELSE HistogramLoopInclusive(i + 1, hist, data, max_iter)

RECURSIVE HistogramLoop(_, _, _, _)
HistogramLoop(i, hist, data, max_iter) ==
    IF ~(i < total_pixels) THEN hist
    ELSE LET iter_bucket == data[i]
         IN  IF iter_bucket < max_iter
             THEN LET counted ==
                        IF iter_bucket \in DOMAIN hist.counts
                        THEN [hist.counts EXCEPT ![iter_bucket] = @ + 1]
                        ELSE hist.counts
                      bucket == IF iter_bucket \in DOMAIN counted
                                THEN counted[iter_bucket] ELSE 0
                  IN  CHOOSE r \in {HistogramLoop(i + 1, h, data, max_iter) :
                          h \in {[counts |-> counted,
                                  total_pixels |-> hist.total_pixels + 1,
                                  max_count |-> IF bucket > hist.max_count
                                                THEN bucket ELSE hist.max_count]}} : TRUE
             ELSE HistogramLoop(i + 1, hist, data, max_iter)

\* the histogram whose total_pixels is never incremented
build_histogram_total_unset(data, max_iter) ==
    [HistogramLoop(0, [counts |-> [b \in 0 .. max_iter - 1 |-> 0],
                       total_pixels |-> 0, max_count |-> 0], data, max_iter)
        EXCEPT !.total_pixels = 0]

build_histogram(data, max_iter) ==
    HistogramLoop(0, [counts |-> [b \in 0 .. max_iter - 1 |-> 0],
                      total_pixels |-> 0, max_count |-> 0], data, max_iter)

\* schedule(static) of the colouring loop: thread t of n gets one block of
\* consecutive iterations, the first total % n threads one iteration more
StaticLo(t, n, total) ==
    LET q == total \div n
        r == total % n
    IN  IF t - 1 < r THEN (t - 1) * (q + 1) ELSE (t - 1) * q + r

\* every block runs to the end of the buffer
StaticHiTotal(t, n, total) == total

StaticHi(t, n, total) ==
    LET q == total \div n
        r == total % n
    IN  StaticLo(t, n, total) + (IF t - 1 < r THEN q + 1 ELSE q)

\* the master builds the histogram (either allocation may fail, leaving
\* histogram NULL) and the team of the colouring loop starts
BuildHistogram ==
    /\ main_pc = "histogram"
    /\ \E ok \in BOOLEAN :
          /\ histogram' = IF ok THEN build_histogram(iteration_data, params.max_iterations)
                          ELSE NoHistogram
          /\ hist_st' = IF ok THEN "live" ELSE "null"
    /\ worker' = [t \in Threads |->
                    IF t \in Team
                    THEN [IdleWorker EXCEPT !.pc = "color",
                            !.i = StaticLo(t, params.num_threads, total_pixels),
                            !.hi = StaticHi(t, params.num_threads, total_pixels)]
                    ELSE IdleWorker]
    /\ main_pc' = "color"
    /\ UNCHANGED <<params, image_st, image_data, iter_st, iteration_data, stats,
                   next_row, last_progress, write_result, exit_status,
                   iter_writes, image_writes>>
    /\ UNCHANGED <<frees, encoder_calls>>
    /\ UNCHANGED <<eval_vars, size_vars, nav_vars>>

(***************************************************************************)
(* Colour mapping.  libm is modelled at the resolution of the model:       *)
(* cos by the rational approximation (1 - 16u^2) / (1 + 4u^2) of           *)
(* cos(2 pi u) on a quarter turn, pow(x, e) on [0, 1] by interpolation     *)
(* between its values at 0, 1/16, 1/4, 1/2 and 1.                          *)
(***************************************************************************)
CosQuarter(f) ==
    LET f2 == FMul(f, f)
    IN  FDiv(Scale - 16 * f2, Scale + 4 * f2)

\* cos(2 pi u) for u in turns
CosTurns(u) ==
    LET m == u % Scale
        f == IF 2 * m > Scale THEN Scale - m ELSE m
    IN  IF 4 * f <= Scale THEN CosQuarter(f) ELSE -CosQuarter(Scale \div 2 - f)

SinTurns(u) == CosTurns(u - Scale \div 4)

Interpolate(x, x0, x1, y0, y1) == y0 + ((x - x0) * (y1 - y0)) \div (x1 - x0)

PowUnit(x, k16, k4, k2) ==
    IF x <= 0 THEN 0
    ELSE IF x >= Scale THEN Scale
    ELSE IF 16 * x <= Scale THEN Interpolate(x, 0, Scale \div 16, 0, k16)
    ELSE IF 4 * x <= Scale THEN Interpolate(x, Scale \div 16, Scale \div 4, k16, k4)
    ELSE IF 2 * x <= Scale THEN Interpolate(x, Scale \div 4, Scale \div 2, k4, k2)
    ELSE Interpolate(x, Scale \div 2, Scale, k2, Scale)

\* pow(x, 0.4) and pow(x, 0.8) for x in [0, 1]
Pow04(x) == PowUnit(x, Dec(0, 330), Dec(0, 574), Dec(0, 758))

Pow08(x) == PowUnit(x, Dec(0, 109), Dec(0, 330), Dec(0, 574))

\* (unsigned char)(255.0 * x)
ToByte(x) ==
    LET v == 255 * x
        whole == IF v >= 0 THEN v \div Scale ELSE -((-v) \div Scale)
    IN  whole % 256

HalfOf(x) == IF x >= 0 THEN x \div 2 ELSE -((-x) \div 2)

Min(a, b) == IF a < b THEN a ELSE b

map_iteration_to_color_standard(smooth_iter, max_iter) ==
    IF smooth_iter >= max_iter THEN Black
    ELSE CHOOSE color \in
           {LET phase == 4 * t
                r_component == HalfOf(Scale + CosTurns(phase))
                g_component == HalfOf(Scale + CosTurns(phase + Scale \div 3))
                b_component == HalfOf(Scale + CosTurns(phase + (2 * Scale) \div 3))
            IN  <<ToByte(FMul(r_component, brightness)),
                  ToByte(FMul(g_component, brightness)),
                  ToByte(FMul(b_component, brightness))>> :
            t \in {FDivInt(FromInt(smooth_iter), max_iter)},
            brightness \in {Pow04(Scale - FDivInt(FromInt(smooth_iter), max_iter))}} : TRUE

\* the accumulation loop: for (i = 0; i <= iter_bucket && i < max_iter; i++)
RECURSIVE Accumulate(_, _, _, _)
Accumulate(i, iter_bucket, max_iter, hist) ==
    IF i <= iter_bucket /\ i < max_iter
    THEN hist.counts[i] + Accumulate(i + 1, iter_bucket, max_iter, hist)
    ELSE 0

HistogramColor(normalized_pos) ==
    LET phase1 == 4 * normalized_pos
        phase2 == 8 * normalized_pos
        phase3 == 16 * normalized_pos
        r_component == HalfOf(Scale + FMul(Dec(0, 800), CosTurns(phase1))
                                    + FMul(Dec(0, 300), CosTurns(phase2)))
        g_component == HalfOf(Scale + FMul(Dec(0, 800), CosTurns(phase1 + Scale \div 3))
                                    + FMul(Dec(0, 300), SinTurns(phase2)))
        b_component == HalfOf(Scale
                              + FMul(Dec(0, 800), CosTurns(phase1 + (2 * Scale) \div 3))
                              + FMul(Dec(0, 300), CosTurns(phase3)))
        brightness == Dec(0, 300) + FMul(Dec(0, 700), Pow08(normalized_pos))
    IN  IF ~IsFinite(normalized_pos) THEN Black
        ELSE <<ToByte(Min(Scale, FMul(r_component, brightness))),
               ToByte(Min(Scale, FMul(g_component, brightness))),
               ToByte(Min(Scale, FMul(b_component, brightness)))>>

\* the early return taken for smooth_iter > max_iter only
map_iteration_to_color_histogram_strict(smooth_iter, max_iter, hist) ==
    IF smooth_iter > max_iter \/ hist = NoHistogram THEN Black
    ELSE LET iter_bucket == IF smooth_iter >= max_iter THEN max_iter - 1 ELSE smooth_iter
             accumulated_count == Accumulate(0, iter_bucket, max_iter, hist)
         IN  CHOOSE color \in
               {HistogramColor(normalized_pos) :
                normalized_pos \in {FDivInt(FromInt(accumulated_count),
                                            hist.total_pixels)}} : TRUE

map_iteration_to_color_histogram(smooth_iter, max_iter, hist) ==
    IF smooth_iter >= max_iter \/ hist = NoHistogram THEN Black
    ELSE LET iter_bucket == IF smooth_iter >= max_iter THEN max_iter - 1 ELSE smooth_iter
             accumulated_count == Accumulate(0, iter_bucket, max_iter, hist)
         IN  CHOOSE color \in
               {HistogramColor(normalized_pos) :
                normalized_pos \in {FDivInt(FromInt(accumulated_count),
                                            hist.total_pixels)}} : TRUE

\* a colouring step that also updates a field of the histogram it reads
ColorPixelCountingUse(t) ==
    /\ main_pc = "color"
    /\ worker[t].pc = "color"
    /\ worker[t].i < worker[t].hi
    /\ \E pixel_color \in
            {IF histogram # NoHistogram
               THEN map_iteration_to_color_histogram(iteration_data[worker[t].i],
                                                     params.max_iterations, histogram)
               ELSE map_iteration_to_color_standard(iteration_data[worker[t].i],
                                                    params.max_iterations)} :
       LET i == worker[t].i
           pixel_base == i * 3
       IN  /\ image_data' = [image_data EXCEPT ![pixel_base] = pixel_color[1],
                                               ![pixel_base + 1] = pixel_color[2],
                                               ![pixel_base + 2] = pixel_color[3]]
           /\ image_writes' = [image_writes EXCEPT ![pixel_base] = @ + 1,
                                                   ![pixel_base + 1] = @ + 1,
                                                   ![pixel_base + 2] = @ + 1]
           /\ worker' = [worker EXCEPT ![t].i = @ + 1,
                           ![t].wrote = @ \cup {pixel_base, pixel_base + 1, pixel_base + 2}]
    /\ histogram' = IF histogram # NoHistogram
                    THEN [histogram EXCEPT !.max_count = @ + 1] ELSE histogram
    /\ UNCHANGED <<params, main_pc, image_st, iter_st, iteration_data, stats, next_row,
                   last_progress, write_result, exit_status, iter_writes>>
    /\ UNCHANGED <<hist_st, frees, encoder_calls>>
    /\ UNCHANGED <<eval_vars, size_vars, nav_vars>>

(***************************************************************************)
(* The colouring loop: #pragma omp parallel for schedule(static)           *)
(***************************************************************************)
ColorPixel(t) ==
    /\ main_pc = "color"
    /\ worker[t].pc = "color"
    /\ worker[t].i < worker[t].hi
    /\ \E pixel_color \in
            {IF histogram # NoHistogram
               THEN map_iteration_to_color_histogram(iteration_data[worker[t].i],
                                                     params.max_iterations, histogram)
               ELSE map_iteration_to_color_standard(iteration_data[worker[t].i],
                                                    params.max_iterations)} :
       LET i == worker[t].i
           pixel_base == i * 3
       IN  /\ image_data' = [image_data EXCEPT ![pixel_base] = pixel_color[1],
                                               ![pixel_base + 1] = pixel_color[2],
                                               ![pixel_base + 2] = pixel_color[3]]
           /\ image_writes' = [image_writes EXCEPT ![pixel_base] = @ + 1,
                                                   ![pixel_base + 1] = @ + 1,
                                                   ![pixel_base + 2] = @ + 1]
           /\ worker' = [worker EXCEPT ![t].i = @ + 1,
                           ![t].wrote = @ \cup {pixel_base, pixel_base + 1, pixel_base + 2}]
    /\ UNCHANGED <<params, main_pc, image_st, iter_st, iteration_data, stats, next_row,
                   histogram, last_progress, write_result, exit_status, iter_writes>>
    /\ UNCHANGED <<hist_st, frees, encoder_calls>>
    /\ UNCHANGED <<eval_vars, size_vars, nav_vars>>

\* a thread that leaves the colouring loop before the end of its block
ColorDoneEarly(t) ==
    /\ main_pc = "color"
    /\ worker[t].pc = "color"
    /\ worker' = [worker EXCEPT ![t].pc = "joined"]
    /\ UNCHANGED <<params, main_pc, image_st, image_data, iter_st, iteration_data,
                   stats, next_row, histogram, last_progress, write_result,
                   exit_status, iter_writes, image_writes>>
    /\ UNCHANGED <<hist_st, frees, encoder_calls>>
    /\ UNCHANGED <<eval_vars, size_vars, nav_vars>>

ColorDone(t) ==
    /\ main_pc = "color"
    /\ worker[t].pc = "color"
    /\ ~(worker[t].i < worker[t].hi)
    /\ worker' = [worker EXCEPT ![t].pc = "joined"]
    /\ UNCHANGED <<params, main_pc, image_st, image_data, iter_st, iteration_data,
                   stats, next_row, histogram, last_progress, write_result,
                   exit_status, iter_writes, image_writes>>
    /\ UNCHANGED <<hist_st, frees, encoder_calls>>
    /\ UNCHANGED <<eval_vars, size_vars, nav_vars>>

\* the implicit barrier at the end of the colouring loop
ColorBarrier ==
    /\ main_pc = "color"
    /\ TeamAt("joined")
    /\ main_pc' = "encode"
    /\ worker' = [t \in Threads |-> IdleWorker]
    /\ UNCHANGED <<params, image_st, image_data, iter_st, iteration_data, stats,
                   next_row, histogram, last_progress, write_result,
                   exit_status, iter_writes, image_writes>>
    /\ UNCHANGED <<hist_st, frees, encoder_calls>>
    /\ UNCHANGED <<eval_vars, size_vars, nav_vars>>

\* the call of stbi_write_png
Encode ==
    /\ main_pc = "encode"
    /\ \E ok \in {0, 1} : write_result' = ok
    /\ encoder_calls' = encoder_calls + 1
    /\ main_pc' = "cleanup"
    /\ UNCHANGED <<params, image_st, image_data, iter_st, iteration_data, stats,
                   next_row, worker, histogram, last_progress, exit_status,
                   iter_writes, image_writes, hist_st, frees>>
    /\ UNCHANGED <<eval_vars, size_vars, nav_vars>>

\* the cleanup without free_histogram
CleanupLeavingHistogram ==
    /\ main_pc = "cleanup"
    /\ image_st' = "freed"
    /\ iter_st' = "freed"
    /\ frees' = [frees EXCEPT !.image = @ + 1, !.iter = @ + 1]
    /\ exit_status' = MainStatus(IF write_result # 0 THEN 1 ELSE 0)
    /\ main_pc' = "exited"
    /\ UNCHANGED <<params, image_data, iteration_data, stats, next_row, worker,
                   histogram, last_progress, write_result, iter_writes,
                   image_writes, hist_st, encoder_calls>>
    /\ UNCHANGED <<eval_vars, size_vars, nav_vars>>

\* the cleanup of either branch of if (write_result), the return of
\* generate_mandelbrot and the return of main
Cleanup ==
    /\ main_pc = "cleanup"
    /\ image_st' = "freed"
    /\ iter_st' = "freed"
    /\ hist_st' = IF histogram # NoHistogram THEN "freed" ELSE hist_st
    /\ frees' = [frees EXCEPT !.image = @ + 1, !.iter = @ + 1,
                              !.hist = IF histogram # NoHistogram THEN @ + 1 ELSE @]
    /\ exit_status' = MainStatus(IF write_result # 0 THEN 1 ELSE 0)
    /\ main_pc' = "exited"
    /\ UNCHANGED <<params, image_data, iteration_data, stats, next_row, worker,
                   histogram, last_progress, write_result, iter_writes,
                   image_writes, encoder_calls>>
    /\ UNCHANGED <<eval_vars, size_vars, nav_vars>>

Next ==
    \/ init_parameters
    \/ Allocate
    \/ \E t \in Threads : TakeChunk(t)
    \/ \E t \in Threads : NoChunkLeft(t)
    \/ \E t \in Threads : EvalPixel(t)
    \/ \E t \in Threads : IncrementStat(t)
    \/ ComputeBarrier
    \/ BuildHistogram
    \/ \E t \in Threads : ColorPixel(t)
    \/ \E t \in Threads : ColorDone(t)
    \/ ColorBarrier
    \/ Encode
    \/ Cleanup

Spec == Init /\ [][Next]_vars

(***************************************************************************)
(* Properties of generate_mandelbrot (specification Spec).                 *)
(***************************************************************************)
AfterCompute == main_pc \in {"histogram", "color", "encode"}

FullTeam == params.num_threads = MaxThreads /\ params.height > ChunkRows

\* C1: whatever the width and height accepted, the number of threads and the
\* order in which the row chunks are taken, no index of iteration_data and no
\* byte of image_data is ever written twice; once the computation loop has
\* ended every index 0 .. width*height-1 has been written exactly once, and
\* once the colouring loop has ended every byte of image_data has been written
\* exactly once.
C1_EachPixelOnce ==
    /\ \A i \in DOMAIN iter_writes : iter_writes[i] <= 1
    /\ \A b \in DOMAIN image_writes : image_writes[b] <= 1
    /\ AfterCompute =>
          /\ DOMAIN iter_writes = 0 .. params.width * params.height - 1
          /\ \A i \in DOMAIN iter_writes : iter_writes[i] = 1
    /\ main_pc = "encode" =>
          /\ DOMAIN image_writes = 0 .. 3 * params.width * params.height - 1
          /\ \A b \in DOMAIN image_writes : image_writes[b] = 1

C1_Witness ==
    /\ main_pc = "encode"
    /\ FullTeam
    /\ params.width = 2
    /\ \A b \in 0 .. 3 * total_pixels - 1 : image_writes[b] = 1
    /\ \A i \in Pixels : iter_writes[i] = 1

\* C2: the histogram is built and iteration_data is read for colouring only
\* after the barrier of the computation loop: whenever the program is at
\* build_histogram, in the colouring loop or beyond, no thread is still in the
\* computation loop and every entry of iteration_data has been written.
C2_BarrierBeforeColouring ==
    (AfterCompute \/ histogram # NoHistogram
       \/ \E t \in Threads : worker[t].pc \in {"color", "joined"})
    => /\ \A t \in Threads :
             worker[t].pc \notin {"idle", "eval", "inc_optimized", "inc_series"}
       /\ \A i \in Pixels : iter_writes[i] >= 1 /\ iteration_data[i] # Unwritten

C2_Witness ==
    /\ main_pc = "color"
    /\ FullTeam
    /\ histogram # NoHistogram
    /\ \A t \in Team : worker[t].wrote # {}

\* C3: in the computation loop and in the colouring loop, the indices of
\* iteration_data (the bytes of image_data) written by one thread are
\* written by no other thread.
C3_DisjointWrites ==
    \A t1 \in Threads, t2 \in Threads :
        t1 # t2 => worker[t1].wrote \cap worker[t2].wrote = {}

C3_Witness ==
    /\ main_pc = "compute"
    /\ \A t \in Threads : Cardinality(worker[t].wrote) >= 2

\* the buffer one thread produces, taking the rows in order
SequentialScan ==
    [i \in Pixels |->
        calculate_mandelbrot_optimized(PixelCr(i % params.width),
                                       PixelCi(i \div params.width),
                                       params.max_iterations)]

\* C4: at the end of the computation loop iteration_data is, entry for
\* entry, the buffer of the sequential scan of the same parameters, whatever
\* the number of threads and the order in which the chunks were taken.
C4_ParallelEqualsSequential ==
    main_pc = "histogram" => iteration_data = SequentialScan

C4_Witness ==
    /\ main_pc = "histogram"
    /\ FullTeam
    /\ params.width = 2
    /\ iteration_data = SequentialScan
    /\ \E i \in Pixels, j \in Pixels : iteration_data[i] # iteration_data[j]

\* C5: two calls of calculate_mandelbrot_optimized made by different threads
\* are never both between the load and the store of an increment of the same
\* counter of stats.
C5_NoSharedUpdate ==
    \A t1 \in Threads, t2 \in Threads :
        (t1 # t2 /\ worker[t1].pc \in {"inc_optimized", "inc_series"})
        => worker[t2].pc # worker[t1].pc

RECURSIVE SumCounts(_, _)
SumCounts(counts, n) == IF n = 0 THEN 0 ELSE counts[n - 1] + SumCounts(counts, n - 1)

Escaped == {i \in Pixels : iteration_data[i] < params.max_iterations}

\* C6: after build_histogram the bucket counts sum to total_pixels of the
\* histogram, both are the number of pixels whose result is below
\* max_iterations, and bucket b counts the pixels whose result has integer
\* part b, so that a pixel whose result is max_iterations is in no bucket.
C6_HistogramTotals ==
    histogram # NoHistogram =>
       /\ DOMAIN histogram.counts = 0 .. params.max_iterations - 1
       /\ SumCounts(histogram.counts, params.max_iterations) = histogram.total_pixels
       /\ histogram.total_pixels = Cardinality(Escaped)
       /\ \A b \in DOMAIN histogram.counts :
             histogram.counts[b] = Cardinality({i \in Pixels : iteration_data[i] = b})

C6_Witness ==
    /\ histogram # NoHistogram
    /\ histogram.total_pixels > 0
    /\ histogram.total_pixels < total_pixels
    /\ \E b \in DOMAIN histogram.counts : histogram.counts[b] >= 2

PixelColor(i) == <<image_data[3 * i], image_data[3 * i + 1], image_data[3 * i + 2]>>

Coloured(i) == image_writes[3 * i] >= 1

\* C11: a result equal to max_iterations is mapped to (0, 0, 0) by both
\* mappings, whatever the histogram: every pixel of image_data whose entry of
\* iteration_data is max_iterations is black once it has been coloured.
C11_MembersBlack ==
    /\ main_pc \in {"color", "encode", "cleanup"} =>
          /\ map_iteration_to_color_standard(params.max_iterations,
                                             params.max_iterations) = Black
          /\ map_iteration_to_color_histogram(params.max_iterations,
                                              params.max_iterations, histogram) = Black
    /\ \A i \in DOMAIN iter_writes :
          (Coloured(i) /\ iteration_data[i] = params.max_iterations)
          => PixelColor(i) = Black

C11_Witness ==
    /\ main_pc = "encode"
    /\ histogram # NoHistogram
    /\ \E i \in Pixels : iteration_data[i] = params.max_iterations /\ PixelColor(i) = Black
    /\ \E j \in Pixels : iteration_data[j] < params.max_iterations /\ PixelColor(j) # Black

Offending ==
    params.width <= 0 \/ params.height <= 0 \/ params.max_iterations <= 0
      \/ params.zoom <= 0

NothingStarted ==
    /\ image_st = "none" /\ iter_st = "none" /\ hist_st = "none"
    /\ iter_writes = <<>> /\ image_writes = <<>>
    /\ \A t \in Threads : worker[t].pc = "off"
    /\ encoder_calls = 0

\* C12: with width <= 0, height <= 0, max_iterations <= 0 or zoom <= 0 after
\* the arguments are parsed, the program ends in init_parameters with status
\* 1: no buffer is allocated, no pixel evaluated or coloured, the encoder is
\* not called; and no step of the program changes the width, height,
\* max_iterations or zoom given.
C12_InvalidRejected ==
    /\ [](Offending => /\ main_pc \in {"init_parameters", "exited"}
                       /\ NothingStarted
                       /\ main_pc = "exited" => exit_status = 1)
    /\ [][/\ params'.width = params.width
          /\ params'.height = params.height
          /\ params'.max_iterations = params.max_iterations
          /\ params'.zoom = params.zoom]_vars

C12_Witness ==
    /\ params.width > 0 /\ params.height > 0 /\ params.zoom > 0
    /\ params.max_iterations = 0
    /\ main_pc = "exited" /\ exit_status = 1
    /\ NothingStarted

Released(st, n) == (st = "freed" /\ n = 1) \/ (st \in {"none", "null"} /\ n = 0)

\* C13: when malloc fails for image_data or for iteration_data,
\* generate_mandelbrot returns failure (main ends with status 1) with no pixel
\* evaluated or coloured, no histogram, no call of the encoder, and the
\* buffer that was allocated freed once; no step of the render runs with a
\* null buffer.
C13_AllocationFailureStops ==
    (image_st = "null" \/ iter_st = "null") =>
       /\ main_pc = "exited" /\ exit_status = 1
       /\ iter_writes = <<>> /\ image_writes = <<>>
       /\ \A t \in Threads : worker[t].pc = "off"
       /\ hist_st = "none" /\ encoder_calls = 0 /\ write_result = -1
       /\ image_st \in {"null", "freed"} /\ Released(image_st, frees.image)
       /\ iter_st \in {"null", "freed"} /\ Released(iter_st, frees.iter)

C13_Witness ==
    /\ image_st = "null" /\ iter_st = "freed"
    /\ frees.iter = 1 /\ frees.image = 0
    /\ main_pc = "exited" /\ exit_status = 1

PixelBufferComplete ==
    /\ DOMAIN image_writes = 0 .. 3 * params.width * params.height - 1
    /\ \A b \in DOMAIN image_writes : image_writes[b] = 1 /\ image_data[b] # Unwritten

\* C14: stbi_write_png is called only when every byte of every pixel of
\* image_data has been written by the colouring loop and every thread has
\* left that loop, and image_data is not written any more once the encoder
\* has been called.
C14_EncodeAfterComplete ==
    /\ []((main_pc = "encode" \/ encoder_calls > 0) =>
             /\ PixelBufferComplete
             /\ \A t \in Threads : worker[t].pc = "off")
    /\ [][encoder_calls > 0 => image_data' = image_data]_vars

C14_Witness ==
    /\ main_pc = "cleanup" /\ encoder_calls = 1
    /\ FullTeam /\ params.width = 2
    /\ PixelBufferComplete

\* C15: stbi_write_png is called at most once in a run, and only after the
\* computation has written every entry of iteration_data; a render that got
\* its buffers ends with exactly one call; once the call has returned,
\* iteration_data is not written and the encoder is not called again; and
\* when the call fails main ends with status 1.
C15_EncoderOnceNoRetry ==
    /\ [](/\ encoder_calls <= 1
          /\ encoder_calls = 1 =>
                /\ main_pc \in {"cleanup", "exited"}
                /\ \A i \in DOMAIN iter_writes : iter_writes[i] = 1
          /\ (main_pc = "exited" /\ image_st = "freed" /\ iter_st = "freed") =>
                encoder_calls = 1
          /\ (main_pc = "exited" /\ write_result = 0) => exit_status = 1
          /\ (main_pc = "exited" /\ write_result = 1) => exit_status = 0)
    /\ [][write_result # -1 => /\ encoder_calls' = encoder_calls
                               /\ iteration_data' = iteration_data
                               /\ iter_writes' = iter_writes
                               /\ write_result' = write_result]_vars

C15_Witness ==
    /\ main_pc = "exited" /\ write_result = 0 /\ exit_status = 1
    /\ encoder_calls = 1
    /\ FullTeam

(***************************************************************************)
(* One evaluator call, step by step: calculate_mandelbrot_optimized or     *)
(* calculate_ffpga on a point of the grid, for a max_iter of EvalIters.    *)
(***************************************************************************)
Grid == {k * (Scale \div 4) : k \in -GridMax .. GridMax} \cup {NaN}

EvalIters == (1 .. MaxEvalIter) \cup {4 * SERIES_TERMS}

\* two points off the grid, inside the disc of radius 0.25 around -1.25
BulbPoints ==
    {<<-((11 * Scale) \div 8), Scale \div 8>>, <<-((5 * Scale) \div 4), Scale \div 8>>}

RenderIdle ==
    /\ params = [width |-> 0, height |-> 0, max_iterations |-> 0, zoom |-> 0,
                 center_x |-> 0, center_y |-> 0, num_threads |-> 0,
                 x_min |-> 0, x_max |-> 0, y_min |-> 0, y_max |-> 0]
    /\ main_pc = "off"
    /\ image_st = "none" /\ image_data = <<>>
    /\ iter_st = "none" /\ iteration_data = <<>>
    /\ stats = [pixels_optimized |-> 0, series_skips |-> 0]
    /\ next_row = 0
    /\ worker = [t \in Threads |-> IdleWorker]
    /\ histogram = NoHistogram
    /\ last_progress = -1
    /\ write_result = -1
    /\ exit_status = -1
    /\ iter_writes = <<>> /\ image_writes = <<>>
    /\ hist_st = "none"
    /\ frees = [image |-> 0, iter |-> 0, hist |-> 0]
    /\ encoder_calls = 0

InitEval ==
    /\ RenderIdle
    /\ SizeIdle
    /\ NavIdle
    /\ e_fn \in {"calculate_mandelbrot_optimized", "calculate_ffpga"}
    /\ \/ e_cr \in Grid /\ e_ci \in Grid
       \/ \E c \in BulbPoints : e_cr = c[1] /\ e_ci = c[2]
    /\ e_max \in EvalIters
    /\ e_pc = "quick"
    /\ e_zr = 0 /\ e_zi = 0 /\ e_iter = 0
    /\ e_zr_sq = 0 /\ e_zi_sq = 0
    /\ e_result = -1 /\ e_path = "none"

\* the fast-rejection test of either evaluator
EvalQuick ==
    /\ e_pc = "quick"
    /\ LET hit == IF e_fn = "calculate_ffpga" THEN quick_ffpga_check(e_cr, e_ci)
                  ELSE quick_mandelbrot_check(e_cr, e_ci)
       IN  IF hit = 1
           THEN e_pc' = "done" /\ e_result' = e_max /\ e_path' = "quick"
           ELSE /\ e_pc' = IF e_fn = "calculate_ffpga" THEN "loop" ELSE "series"
                /\ UNCHANGED <<e_result, e_path>>
    /\ UNCHANGED <<e_cr, e_ci, e_max, e_fn, e_zr, e_zi, e_iter, e_zr_sq, e_zi_sq>>
    /\ UNCHANGED <<render_vars, size_vars, nav_vars>>

\* the fallback that goes on from the state of the seed loop instead of
\* starting again from z = 0
EvalSeriesResume ==
    /\ e_pc = "series"
    /\ \E series_result \in {IF e_max >= MIN_SERIES_ITER
                             THEN series_approximation(e_cr, e_ci, e_max) ELSE -1} :
          IF series_result > 0
          THEN /\ e_pc' = "done" /\ e_result' = series_result /\ e_path' = "series"
               /\ UNCHANGED <<e_zr, e_zi, e_iter>>
          ELSE \E s \in {SeriesLoop(0, 0, 0, FromInt(1), 0, e_cr, e_ci, e_max)} :
               /\ e_pc' = "loop"
               /\ e_zr' = s.zr /\ e_zi' = s.zi /\ e_iter' = s.n
               /\ UNCHANGED <<e_result, e_path>>
    /\ UNCHANGED <<e_cr, e_ci, e_max, e_fn, e_zr_sq, e_zi_sq>>
    /\ UNCHANGED <<render_vars, size_vars, nav_vars>>

\* the series-approximation branch of calculate_mandelbrot_optimized; when
\* it does not return, the locals of the main loop are initialised
EvalSeries ==
    /\ e_pc = "series"
    /\ \E series_result \in {IF e_max >= MIN_SERIES_ITER
                             THEN series_approximation(e_cr, e_ci, e_max) ELSE -1} :
          IF series_result > 0
          THEN /\ e_pc' = "done" /\ e_result' = series_result /\ e_path' = "series"
               /\ UNCHANGED <<e_zr, e_zi, e_iter>>
          ELSE /\ e_pc' = "loop"
               /\ e_zr' = 0 /\ e_zi' = 0 /\ e_iter' = 0
               /\ UNCHANGED <<e_result, e_path>>
    /\ UNCHANGED <<e_cr, e_ci, e_max, e_fn, e_zr_sq, e_zi_sq>>
    /\ UNCHANGED <<render_vars, size_vars, nav_vars>>

\* one pass through the body of the while loop
EvalIterate ==
    /\ e_pc = "loop"
    /\ IF e_fn = "calculate_ffpga"
       THEN FfpgaGuard(e_zr_sq, e_zi_sq, e_iter, e_max)
       ELSE LoopGuard(e_zr, e_zi, e_iter, e_max)
    /\ e_zr_sq' = FMul(e_zr, e_zr)
    /\ e_zi_sq' = FMul(e_zi, e_zi)
    /\ e_zi' = NextZi(e_zr, e_zi, e_ci)
    /\ e_zr' = NextZr(e_zr, e_zi, e_cr)
    /\ e_iter' = e_iter + 1
    /\ UNCHANGED <<e_pc, e_cr, e_ci, e_max, e_fn, e_result, e_path>>
    /\ UNCHANGED <<render_vars, size_vars, nav_vars>>

\* the loop is left and the function returns
EvalReturn ==
    /\ e_pc = "loop"
    /\ ~(IF e_fn = "calculate_ffpga"
         THEN FfpgaGuard(e_zr_sq, e_zi_sq, e_iter, e_max)
         ELSE LoopGuard(e_zr, e_zi, e_iter, e_max))
    /\ e_result' = IF e_fn = "calculate_ffpga"
                   THEN FfpgaResult(e_iter, e_zr, e_zi, e_max)
                   ELSE SmoothResult(e_iter, e_zr, e_zi, e_max)
    /\ e_path' = IF e_iter < e_max THEN "escape" ELSE "limit"
    /\ e_pc' = "done"
    /\ UNCHANGED <<e_cr, e_ci, e_max, e_fn, e_zr, e_zi, e_iter, e_zr_sq, e_zi_sq>>
    /\ UNCHANGED <<render_vars, size_vars, nav_vars>>

NextEval == EvalQuick \/ EvalSeries \/ EvalIterate \/ EvalReturn

SpecEval == InitEval /\ [][NextEval]_vars

(***************************************************************************)
(* Properties of the evaluators (specification SpecEval).  A returned      *)
(* value is held by its integer part: a return of max_iter is the integer  *)
(* max_iter, and a smoothed or estimated value r has integer part below    *)
(* max_iter exactly when r < max_iter.                                     *)
(***************************************************************************)
Returned(fn) == e_fn = fn /\ e_pc = "done"

\* C7: on every return path of calculate_mandelbrot_optimized the value
\* returned is at least 0 and at most max_iter: it is max_iter itself on the
\* fast-rejection and iteration-limit paths and below max_iter on the series
\* and smoothed-escape paths.
C7_ResultInRange ==
    Returned("calculate_mandelbrot_optimized") =>
       /\ e_result >= 0
       /\ e_result <= e_max
       /\ e_path \in {"quick", "limit"} => e_result = e_max
       /\ e_path \in {"series", "escape"} => e_result < e_max

C7_Witness ==
    /\ Returned("calculate_mandelbrot_optimized")
    /\ e_path = "series"
    /\ e_result = e_max - 1

\* C8: a value below max_iter is returned only for a point whose iteration
\* from z = 0 exceeds the escape threshold before max_iter iterations; a
\* point whose iteration runs to max_iter without escaping is returned as
\* max_iter.
C8_BelowMaxOnlyIfEscaped ==
    Returned("calculate_mandelbrot_optimized") =>
       (e_result < e_max <=> MainLoop(0, 0, 0, e_cr, e_ci, e_max).iter < e_max)

\* C9: a point for which quick_mandelbrot_check returns 1 does not escape
\* when fully iterated: the loop from z = 0 runs to iter = max_iter and |z|^2
\* stays within ESCAPE_RADIUS_SQ; (0, 0) is such a point.
C9_QuickCheckSound ==
    /\ (Returned("calculate_mandelbrot_optimized") /\ e_path = "quick") =>
          LET l == MainLoop(0, 0, 0, e_cr, e_ci, e_max)
          IN  /\ l.iter = e_max
              /\ FLe(FAdd(FMul(l.zr, l.zr), FMul(l.zi, l.zi)), FromInt(ESCAPE_RADIUS_SQ))
    /\ (Returned("calculate_mandelbrot_optimized") /\ e_cr = 0 /\ e_ci = 0) =>
          e_path = "quick"

C9_Witness ==
    /\ Returned("calculate_mandelbrot_optimized")
    /\ e_path = "quick"
    /\ e_cr = -FromInt(1) /\ e_ci = 0
    /\ e_max = 4 * SERIES_TERMS

AtTwoTwo == e_cr = FromInt(2) /\ e_ci = FromInt(2)

\* C10 as stated: for (2, 2) and every max_iter > 0 the evaluator does not
\* return max_iter, and the counter stands at 1 when the escape is detected.
C10_EscapesOnIterationOne ==
    (AtTwoTwo /\ e_pc = "done") => (e_result # e_max /\ e_iter = 1)

\* C10 amended: (2, 2) is neither fast-rejected nor estimated by the series.
\* calculate_mandelbrot_optimized tests |z|^2 against BAILOUT_TEST before
\* each step: the escape is detected with the counter at 3 and the value
\* returned has integer part 1 when max_iter > 3, and max_iter is returned
\* when max_iter <= 3.  calculate_ffpga tests the squares of the step before
\* against ESCAPE_RADIUS_SQ: the counter is at 2 and the value has integer
\* part 1 when max_iter > 2, and max_iter is returned when max_iter <= 2.
C10_TwoTwoDetection ==
    (AtTwoTwo /\ e_pc = "done") =>
       LET detected == IF e_fn = "calculate_ffpga" THEN 2 ELSE 3
       IN  IF e_max > detected
           THEN e_path = "escape" /\ e_iter = detected /\ e_result = 1
           ELSE e_path = "limit" /\ e_iter = e_max /\ e_result = e_max

C10_Witness ==
    /\ AtTwoTwo /\ Returned("calculate_mandelbrot_optimized")
    /\ e_max = 4 * SERIES_TERMS
    /\ e_iter = 3 /\ e_result = 1

\* C16: the value calculate_mandelbrot_optimized returns is the value it
\* returns with the quick_mandelbrot_check branch left out (series
\* approximation, then full iteration), for every point and max_iter > 0.
C16_QuickCheckPureOptimisation ==
    Returned("calculate_mandelbrot_optimized") =>
       e_result = OutcomeWithoutQuickCheck(e_cr, e_ci, e_max).value

(***************************************************************************)
(* Progress.  SpecLive is the render with a step that stays possible       *)
(* eventually taken: the threads of the team and the master are scheduled, *)
(* and no step waits for anything but the two barriers.                    *)
(***************************************************************************)
SpecLive == Init /\ [][Next]_vars /\ WF_vars(Next)

\* the passes of the seed loop and of the main loop in the call a thread is
\* about to make
EvalStepsBounded ==
    \A t \in Threads :
       (main_pc = "compute" /\ worker[t].pc = "eval") =>
          \E cr \in {PixelCr(worker[t].px)}, ci \in {PixelCi(worker[t].py)} :
             /\ MainLoop(0, 0, 0, cr, ci, params.max_iterations).iter
                   <= params.max_iterations
             /\ SeriesLoop(0, 0, 0, FromInt(1), 0, cr, ci, params.max_iterations).n
                   <= SERIES_TERMS

\* C17: a render that has its buffers ends with every row chunk handed out,
\* both barriers passed (every thread is out of its loops), the encoder
\* called and the return to main; a call of the evaluator makes at most
\* SERIES_TERMS seed passes and at most max_iterations passes of the main loop.
C17_RenderCompletes ==
    /\ (main_pc = "compute")
          ~> (/\ main_pc = "exited"
              /\ encoder_calls = 1
              /\ next_row >= params.height
              /\ \A t \in Threads : worker[t].pc = "off")
    /\ []EvalStepsBounded

C17_Witness ==
    /\ main_pc = "exited" /\ encoder_calls = 1
    /\ FullTeam /\ params.width = 2
    /\ next_row >= params.height

(***************************************************************************)
(* Allocation failures and the release of the buffers (specification Spec) *)
(***************************************************************************)
AnAllocationFailed == image_st = "null" \/ iter_st = "null" \/ hist_st = "null"

\* C18: once an allocation of the render has failed (image_data,
\* iteration_data or the histogram of build_histogram), the encoder is never
\* called and the program ends with status 1.
C18_EveryAllocationFailureFatal ==
    AnAllocationFailed =>
       /\ encoder_calls = 0
       /\ main_pc = "exited" => exit_status = 1

\* the phases of generate_mandelbrot that read or write the buffers
BuffersInUse == main_pc \in {"compute", "histogram", "color", "encode"}

C20_SeriesCountsItsSeeds ==
    (Returned("calculate_mandelbrot_optimized") /\ e_path # "quick"
       /\ e_max >= MIN_SERIES_ITER) =>
       LET s == SeriesLoop(0, 0, 0, FromInt(1), 0, e_cr, e_ci, e_max)
           est == EstimatedEscape(s.zr, s.zi, s.dzr, s.dzi, e_max - s.n)
           accepted == /\ ~s.esc
                       /\ IsFinite(s.dzr) /\ IsFinite(s.dzi)
                       /\ s.dzr # 0 \/ s.dzi # 0
                       /\ est >= 0
       IN  /\ e_path = "series" <=> accepted
           /\ e_path = "series" => e_result = s.n + est

\* the orbit has left the escape radius at one of the seed passes: the test
\* inside the loop has fired, or z after the last pass is outside
SeedEscaped ==
    \E s \in {SeriesLoop(0, 0, 0, FromInt(1), 0, e_cr, e_ci, e_max)} :
       \/ s.esc
       \/ FGt(FAdd(FMul(s.zr, s.zr), FMul(s.zi, s.zi)), FromInt(ESCAPE_RADIUS_SQ))

\* C21: when the orbit leaves the escape radius at one of the seed passes of
\* series_approximation, the last one included, the call returns no estimate
\* and calculate_mandelbrot_optimized enters its main loop with z = 0 and
\* iteration counter 0.
C21_SeedEscapeRestarts ==
    [][(/\ e_fn = "calculate_mandelbrot_optimized"
        /\ e_pc = "series"
        /\ e_max >= MIN_SERIES_ITER
        /\ SeedEscaped)
          => (e_pc' = "loop" /\ e_zr' = 0 /\ e_zi' = 0 /\ e_iter' = 0)]_vars

\* the main loop entered after an escape at the last seed pass only
C21_Witness ==
    /\ e_fn = "calculate_mandelbrot_optimized"
    /\ e_pc = "loop" /\ e_iter = 0 /\ e_zr = 0 /\ e_zi = 0
    /\ e_max >= MIN_SERIES_ITER
    /\ SeedEscaped
    /\ ~SeriesLoop(0, 0, 0, FromInt(1), 0, e_cr, e_ci, e_max).esc

(***************************************************************************)
(* The histogram between the two loops (specification Spec)                *)
(***************************************************************************)
\* C22: the histogram changes in one step only, the call of build_histogram
\* made between the two loops while no thread of a team runs and every
\* element of iteration_data is written; no thread colours before that call;
\* from then on the histogram keeps the contents built from iteration_data,
\* whatever the colouring threads do.
C22_HistogramBuiltOnceReadOnly ==
    /\ []((\E t \in Threads : worker[t].pc \in {"color", "joined"})
             => main_pc = "color" /\ hist_st \in {"live", "null"})
    /\ []((main_pc \in {"color", "encode", "cleanup"} /\ histogram # NoHistogram)
             => histogram = build_histogram(iteration_data, params.max_iterations))
    /\ [][histogram' # histogram =>
            /\ main_pc = "histogram" /\ main_pc' = "color"
            /\ histogram = NoHistogram /\ hist_st = "none"
            /\ \A t \in Threads : worker[t].pc = "off"
            /\ \A i \in Pixels : iter_writes[i] = 1]_vars

C22_Witness ==
    /\ main_pc = "color" /\ FullTeam
    /\ histogram # NoHistogram /\ hist_st = "live"
    /\ \A t \in Team : worker[t].pc = "joined" /\ worker[t].wrote # {}

(***************************************************************************)
(* Progress reporting (specification Spec)                                 *)
(***************************************************************************)
\* the colour of pixel i computed from the sequential scan alone
ScanColor(i) ==
    IF histogram # NoHistogram
    THEN map_iteration_to_color_histogram(
             SequentialScan[i], params.max_iterations,
             build_histogram(SequentialScan, params.max_iterations))
    ELSE map_iteration_to_color_standard(SequentialScan[i], params.max_iterations)

\* C23: a step in which the master reports progress changes, besides
\* last_progress and the thread's own counter, only the element of
\* iteration_data the thread stores in that iteration, with the value of the
\* evaluator, and leaves image_data alone; after the computation loop
\* iteration_data is the buffer of the sequential scan and after the
\* colouring loop image_data holds the colours of that buffer, whatever
\* was reported and by which rows of the master.
C23_ProgressAdvisory ==
    /\ [](main_pc \in {"histogram", "encode", "cleanup"}
             => iteration_data = SequentialScan)
    /\ [](main_pc \in {"encode", "cleanup"}
             => \A i \in Pixels : PixelColor(i) = ScanColor(i))
    /\ [][last_progress' # last_progress =>
            /\ image_data' = image_data
            /\ \E t \in Team :
                  \E idx \in {worker[t].py * params.width + worker[t].px} :
                     iteration_data' =
                        [iteration_data EXCEPT ![idx] =
                            calculate_mandelbrot_optimized(
                                PixelCr(worker[t].px), PixelCi(worker[t].py),
                                params.max_iterations)]]_vars

\* the frame is complete, the second thread has computed rows and the master
\* has reported
C23_Witness ==
    /\ main_pc = "encode" /\ FullTeam
    /\ last_progress \notin {-1, 100}
    /\ \A i \in Pixels : PixelColor(i) = ScanColor(i)
    /\ \E i \in Pixels : PixelColor(i) # Black

(***************************************************************************)
(* The normalised position of map_iteration_to_color_histogram             *)
(* (specification Spec)                                                    *)
(***************************************************************************)
\* accumulated_count for the pixel i of the frame
AccumulatedCount(i) ==
    Accumulate(0, IF iteration_data[i] >= params.max_iterations
                  THEN params.max_iterations - 1 ELSE iteration_data[i],
               params.max_iterations, histogram)

\* C24: with the histogram of the frame, every pixel whose result is below
\* max_iterations has a divisor total_pixels >= 1 and an accumulated count
\* between 0 and total_pixels, so that normalized_pos lies in [0, 1].
C24_NormalisedPositionInUnit ==
    (main_pc \in {"color", "encode", "cleanup"} /\ histogram # NoHistogram) =>
       \A i \in Pixels :
          iteration_data[i] < params.max_iterations =>
             /\ histogram.total_pixels >= 1
             /\ AccumulatedCount(i) >= 0
             /\ AccumulatedCount(i) <= histogram.total_pixels
             /\ \E normalized_pos \in {FDivInt(FromInt(AccumulatedCount(i)),
                                                histogram.total_pixels)} :
                   IsFinite(normalized_pos) /\ normalized_pos >= 0
                      /\ normalized_pos <= Scale

\* a frame with one pixel at position 1 and another strictly inside (0, 1)
C24_Witness ==
    /\ main_pc = "encode" /\ histogram # NoHistogram
    /\ \E i \in Pixels, j \in Pixels :
          /\ iteration_data[i] < params.max_iterations
          /\ iteration_data[j] < params.max_iterations
          /\ AccumulatedCount(i) = histogram.total_pixels
          /\ AccumulatedCount(j) > 0
          /\ AccumulatedCount(j) < histogram.total_pixels

(***************************************************************************)
(* The fast rejection of the C-FFPGA variant (specification SpecEval)      *)
(***************************************************************************)
\* C25: a point for which quick_ffpga_check returns 1 does not escape under
\* the loop of calculate_ffpga run from z = 0: the loop reaches
\* iter = max_iter, so that the value returned through the shortcut,
\* max_iter, is the value of the full iteration.
C25_FfpgaQuickCheckSound ==
    (Returned("calculate_ffpga") /\ e_path = "quick") =>
       \E l \in {FfpgaLoop(0, 0, 0, 0, 0, e_cr, e_ci, e_max)} :
          /\ l.iter = e_max
          /\ FfpgaResult(l.iter, l.zr, l.zi, e_max) = e_result

(***************************************************************************)
(* The sizes and offsets of one frame (specification SpecSize)             *)
(*                                                                         *)
(* A number wider than the integers of the checker is a pair <<hi, lo>>    *)
(* of value hi * Limb + lo with 0 <= lo < Limb; hi carries the sign.       *)
(* An int is such a number of -2^31 .. 2^31 - 1, a size_t a non-negative   *)
(* one (size_t has 64 bits).                                               *)
(***************************************************************************)
Limb == 32768

WNorm(hi, lo) == <<hi + (lo \div Limb), lo % Limb>>

WOf(x) == WNorm(0, x)

\* w * k for 0 <= k < 2^16
WMul(w, k) == WNorm(w[1] * k, w[2] * k)

WAdd(a, b) == WNorm(a[1] + b[1], a[2] + b[2])

WLess(a, b) == a[1] < b[1] \/ (a[1] = b[1] /\ a[2] < b[2])

\* INT_MIN <= w <= INT_MAX
FitsInt(w) == w[1] >= -65536 /\ w[1] <= 65535

\* the low 32 bits of w, read as an int
WrapInt(w) ==
    LET h == w[1] % 131072
    IN  <<IF h >= 65536 THEN h - 131072 ELSE h, w[2]>>

\* The value an int expression of exact value w leaves behind.  Signed
\* overflow is undefined: the build either keeps the low 32 bits or, having
\* assumed that no overflow happens, carries the exact value in a 64-bit
\* register.
IntOutcomes(w) == IF FitsInt(w) THEN {w} ELSE {WrapInt(w), w}

Overflowed(w, name) == IF FitsInt(w) THEN {} ELSE {name}

\* the widths and heights of argv
Dims == {0, 1, 2, 1000, 26755, 32768, 40000, 46341, 65535}

SizeFns == {"generate_mandelbrot", "generate_ffpga"}

InitSize ==
    /\ RenderIdle
    /\ EvalIdle
    /\ NavIdle
    /\ sz_fn \in SizeFns
    /\ sz_pc = "validate"
    /\ sz_width \in Dims /\ sz_height \in Dims
    /\ sz_image_size = <<0, 0>> /\ sz_iter_count = <<0, 0>>
    /\ sz_total = <<0, 0>> /\ sz_buffer = "none"
    /\ sz_offset = <<0, 0>> /\ sz_overflow = {}

\* init_parameters: the test of width and height
SizeValidate ==
    /\ sz_pc = "validate"
    /\ sz_pc' = IF sz_width <= 0 \/ sz_height <= 0 THEN "rejected" ELSE "alloc"
    /\ UNCHANGED <<sz_fn, sz_width, sz_height, sz_image_size, sz_iter_count,
                   sz_total, sz_buffer, sz_offset, sz_overflow>>
    /\ UNCHANGED <<render_vars, eval_vars, nav_vars>>

\* size_t image_size and the malloc calls.  generate_mandelbrot multiplies
\* in size_t; generate_ffpga multiplies in int and converts the product, a
\* negative product becoming a size of at least 2^63 that no malloc grants.
SizeAllocate ==
    /\ sz_pc = "alloc"
    /\ \E area \in {WMul(WOf(sz_width), sz_height)} :
       \E granted \in BOOLEAN :
          IF sz_fn = "generate_mandelbrot"
          THEN /\ sz_image_size' = WMul(area, 3)
               /\ sz_iter_count' = area
               /\ sz_overflow' = sz_overflow
               /\ sz_pc' = IF granted THEN "total" ELSE "failed"
          ELSE \E product \in IntOutcomes(area) :
               \E bytes \in IntOutcomes(WMul(product, 3)) :
                  /\ sz_image_size' = bytes
                  /\ sz_iter_count' = <<0, 0>>
                  /\ sz_overflow' = sz_overflow
                                       \cup Overflowed(area, "image_size")
                                       \cup Overflowed(WMul(product, 3), "image_size")
                  /\ sz_pc' = IF granted /\ ~WLess(bytes, <<0, 0>>)
                              THEN "total" ELSE "failed"
    /\ UNCHANGED <<sz_fn, sz_width, sz_height, sz_total, sz_buffer, sz_offset>>
    /\ UNCHANGED <<render_vars, eval_vars, nav_vars>>

\* int total_pixels = params->width * params->height
SizeTotal ==
    /\ sz_pc = "total"
    /\ \E area \in {WMul(WOf(sz_width), sz_height)} :
          /\ sz_total' \in IntOutcomes(area)
          /\ sz_overflow' = sz_overflow \cup Overflowed(area, "total_pixels")
    /\ sz_pc' = "store"
    /\ UNCHANGED <<sz_fn, sz_width, sz_height, sz_image_size, sz_iter_count,
                   sz_buffer, sz_offset>>
    /\ UNCHANGED <<render_vars, eval_vars, nav_vars>>

\* the first and the last pixel of the frame
CornerPixels == {<<0, 0>>, <<sz_width - 1, sz_height - 1>>}

\* The store of pixel (px, py) in the computation loop: iteration_data at
\* pixel_index = py * width + px in generate_mandelbrot, image_data at
\* pixel_index = (py * width + px) * 3 in generate_ffpga.
SizeStore ==
    /\ sz_pc = "store"
    /\ \E p \in CornerPixels :
       \E rows \in {WMul(WOf(p[2]), sz_width)} :
       \E row_start \in IntOutcomes(rows) :
       \E sum \in {WAdd(row_start, WOf(p[1]))} :
       \E index \in IntOutcomes(sum) :
          IF sz_fn = "generate_mandelbrot"
          THEN /\ sz_buffer' = "iteration_data"
               /\ sz_offset' = index
               /\ sz_overflow' = sz_overflow
                                    \cup Overflowed(rows, "pixel_index")
                                    \cup Overflowed(sum, "pixel_index")
               /\ sz_pc' = "color"
          ELSE \E byte_index \in IntOutcomes(WMul(index, 3)) :
                  /\ sz_buffer' = "image_data"
                  /\ sz_offset' = byte_index
                  /\ sz_overflow' = sz_overflow
                                       \cup Overflowed(rows, "pixel_index")
                                       \cup Overflowed(sum, "pixel_index")
                                       \cup Overflowed(WMul(index, 3), "pixel_index")
                  /\ sz_pc' = "done"
    /\ UNCHANGED <<sz_fn, sz_width, sz_height, sz_image_size, sz_iter_count,
                   sz_total>>
    /\ UNCHANGED <<render_vars, eval_vars, nav_vars>>

\* the first and the last i of for (i = 0; i < total_pixels; i++)
ColorIndices ==
    IF WLess(<<0, 0>>, sz_total) THEN {<<0, 0>>, WAdd(sz_total, WOf(-1))} ELSE {}

\* The store of pixel i in the colouring loop of generate_mandelbrot, at
\* pixel_base = i * 3; the loop has no pass when total_pixels <= 0.
SizeColor ==
    /\ sz_pc = "color"
    /\ IF ColorIndices = {}
       THEN UNCHANGED <<sz_buffer, sz_offset, sz_overflow>>
       ELSE \E i \in ColorIndices :
            \E pixel_base \in IntOutcomes(WMul(i, 3)) :
               /\ sz_buffer' = "image_data"
               /\ sz_offset' = pixel_base
               /\ sz_overflow' = sz_overflow
                                    \cup Overflowed(WMul(i, 3), "pixel_base")
    /\ sz_pc' = "done"
    /\ UNCHANGED <<sz_fn, sz_width, sz_height, sz_image_size, sz_iter_count,
                   sz_total>>
    /\ UNCHANGED <<render_vars, eval_vars, nav_vars>>

NextSize == SizeValidate \/ SizeAllocate \/ SizeTotal \/ SizeStore \/ SizeColor

SpecSize == InitSize /\ [][NextSize]_vars

\* the store of `cells` elements at sz_offset lies inside a buffer of
\* `capacity` elements
StoreInside(cells, capacity) ==
    /\ ~WLess(sz_offset, <<0, 0>>)
    /\ WLess(WAdd(sz_offset, WOf(cells - 1)), capacity)

\* C26: for every width and height accepted by init_parameters no int
\* computation of total_pixels, pixel_index, pixel_base or (C-FFPGA)
\* image_size overflows, and every store of a pixel lies inside the
\* allocated iteration and image buffers.
C26_OffsetsInsideBuffers ==
    /\ sz_overflow = {}
    /\ sz_buffer = "iteration_data" => StoreInside(1, sz_iter_count)
    /\ sz_buffer = "image_data" => StoreInside(3, sz_image_size)

(***************************************************************************)
(* The pixel-to-coordinate mapping (specification Spec)                    *)
(***************************************************************************)
\* init_parameters has returned without calling exit
ParamsAccepted == main_pc # "init_parameters" /\ ~InvalidParams(params)

\* C27: for every parameter set accepted by init_parameters the divisors
\* width - 1 and height - 1 of x_scale and y_scale are non-zero, column 0
\* maps to x_min and column width - 1 to x_max, row 0 to y_min and row
\* height - 1 to y_max.
C27_ScaleFactorsDefined ==
    ParamsAccepted =>
       /\ params.width - 1 # 0 /\ params.height - 1 # 0
       /\ IsFinite(x_scale) /\ IsFinite(y_scale)
       /\ PixelCr(0) = params.x_min /\ PixelCr(params.width - 1) = params.x_max
       /\ PixelCi(0) = params.y_min /\ PixelCi(params.height - 1) = params.y_max

(***************************************************************************)
(* The statistics counters (specification Spec)                            *)
(***************************************************************************)
\* the pixels whose call leaves calculate_mandelbrot_optimized through the
\* given return statement
PixelsResolvedBy(path) ==
    {i \in Pixels : EvalPath(PixelCr(i % params.width),
                             PixelCi(i \div params.width),
                             params.max_iterations) = path}

\* C28: after the computation phase stats.pixels_optimized is the number
\* of pixels for which quick_mandelbrot_check returned 1 and
\* stats.series_skips the number of pixels resolved by
\* series_approximation, for every thread count and interleaving.
C28_StatsCountersExact ==
    main_pc = "histogram" =>
       /\ stats.pixels_optimized = Cardinality(PixelsResolvedBy("quick"))
       /\ stats.series_skips = Cardinality(PixelsResolvedBy("series"))

(***************************************************************************)
(* The indices of histogram->counts (specification SpecEval)               *)
(***************************************************************************)
\* build_histogram with the test of the bucket made inclusive
RECURSIVE CountedIndicesInclusive(_, _, _, _)
CountedIndicesInclusive(i, n, data, max_iter) ==
    IF ~(i < n) THEN {}
    ELSE LET iter_bucket == data[i]
         IN  (IF iter_bucket <= max_iter THEN {iter_bucket} ELSE {})
                \cup CountedIndicesInclusive(i + 1, n, data, max_iter)

\* the indices build_histogram passes to hist->counts[...] over the n
\* entries of data
RECURSIVE CountedIndices(_, _, _, _)
CountedIndices(i, n, data, max_iter) ==
    IF ~(i < n) THEN {}
    ELSE LET iter_bucket == data[i]
         IN  (IF iter_bucket < max_iter THEN {iter_bucket} ELSE {})
                \cup CountedIndices(i + 1, n, data, max_iter)

\* the indices the accumulation loop of map_iteration_to_color_histogram
\* passes to histogram->counts[...]
RECURSIVE AccumulateIndices(_, _, _)
AccumulateIndices(i, iter_bucket, max_iter) ==
    IF i <= iter_bucket /\ i < max_iter
    THEN {i} \cup AccumulateIndices(i + 1, iter_bucket, max_iter)
    ELSE {}

\* the indices map_iteration_to_color_histogram uses for one value
ColorIndicesOf(smooth_iter, max_iter) ==
    IF smooth_iter >= max_iter THEN {}
    ELSE LET iter_bucket == IF smooth_iter >= max_iter THEN max_iter - 1
                            ELSE smooth_iter
         IN  AccumulateIndices(0, iter_bucket, max_iter)

\* C29: for every value the evaluator returns, the bucket build_histogram
\* counts it in and every index of the accumulation loop of
\* map_iteration_to_color_histogram are indices of the max_iter entries of
\* histogram->counts, 0 .. max_iter - 1.
C29_HistogramIndicesInRange ==
    Returned("calculate_mandelbrot_optimized") =>
       /\ CountedIndices(0, 1, [i \in {0} |-> e_result], e_max)
             \subseteq 0 .. e_max - 1
       /\ ColorIndicesOf(e_result, e_max) \subseteq 0 .. e_max - 1

\* a point that escapes: its value is counted in a bucket and the
\* accumulation loop runs up to that bucket
C29_Witness ==
    /\ Returned("calculate_mandelbrot_optimized")
    /\ e_path = "escape"
    /\ CountedIndices(0, 1, [i \in {0} |-> e_result], e_max) = {e_result}
    /\ ColorIndicesOf(e_result, e_max) = 0 .. e_result
    /\ e_result > 0

(***************************************************************************)
(* The navigation history of the viewer (specification SpecNav)            *)
(*                                                                         *)
(* this.history is the sequence nav_history, entry k of the array being    *)
(* nav_history[k + 1].  A position object is [view, saved]: the viewport   *)
(* copied from the renderer and the ordinal of the call that created the   *)
(* object, which tells the objects apart.                                  *)
(***************************************************************************)
maxHistory == 10

\* calls of saveCurrentPosition in one session
MaxSaves == 12

\* the arguments of goToIndex
IndexArgs == -1 .. maxHistory

\* new NavigationHistory(fractalRenderer)
InitNav ==
    /\ RenderIdle
    /\ EvalIdle
    /\ SizeIdle
    /\ nav_history = <<>>
    /\ nav_currentIndex = -1
    /\ nav_view = 0
    /\ nav_saves = 0
    /\ nav_last = "constructor"

\* history.slice(0, end)
Slice(history, end) == SubSeq(history, 1, end)

\* history.shift(), the array left behind
Shift(history) == Tail(history)

\* saveCurrentPosition with the limit of the history not enforced
saveCurrentPositionUnlimited ==
    /\ nav_saves < MaxSaves
    /\ \E position \in {[view |-> nav_view, saved |-> nav_saves + 1]} :
       \E kept \in {IF nav_currentIndex < Len(nav_history) - 1
                    THEN Slice(nav_history, nav_currentIndex + 1)
                    ELSE nav_history} :
          /\ nav_history' = Append(kept, position)
          /\ nav_currentIndex' = Len(kept)
    /\ nav_saves' = nav_saves + 1
    /\ nav_last' = "saveCurrentPosition"
    /\ UNCHANGED nav_view
    /\ UNCHANGED <<render_vars, eval_vars, size_vars>>

saveCurrentPosition ==
    /\ nav_saves < MaxSaves
    /\ \E position \in {[view |-> nav_view, saved |-> nav_saves + 1]} :
       \E kept \in {IF nav_currentIndex < Len(nav_history) - 1
                    THEN Slice(nav_history, nav_currentIndex + 1)
                    ELSE nav_history} :
       \E pushed \in {Append(kept, position)} :
          IF Len(pushed) > maxHistory
          THEN /\ nav_history' = Shift(pushed)
               /\ nav_currentIndex' = (Len(pushed) - 1) - 1
          ELSE /\ nav_history' = pushed
               /\ nav_currentIndex' = Len(pushed) - 1
    /\ nav_saves' = nav_saves + 1
    /\ nav_last' = "saveCurrentPosition"
    /\ UNCHANGED nav_view
    /\ UNCHANGED <<render_vars, eval_vars, size_vars>>

\* goToPosition(position): the viewport of the renderer afterwards
goToPosition(position) == position.view

goBack ==
    /\ IF nav_currentIndex > 0
       THEN /\ nav_currentIndex' = nav_currentIndex - 1
            /\ nav_view' = goToPosition(nav_history[(nav_currentIndex - 1) + 1])
       ELSE UNCHANGED <<nav_currentIndex, nav_view>>
    /\ nav_last' = "goBack"
    /\ UNCHANGED <<nav_history, nav_saves>>
    /\ UNCHANGED <<render_vars, eval_vars, size_vars>>

goForward ==
    /\ IF nav_currentIndex < Len(nav_history) - 1
       THEN /\ nav_currentIndex' = nav_currentIndex + 1
            /\ nav_view' = goToPosition(nav_history[(nav_currentIndex + 1) + 1])
       ELSE UNCHANGED <<nav_currentIndex, nav_view>>
    /\ nav_last' = "goForward"
    /\ UNCHANGED <<nav_history, nav_saves>>
    /\ UNCHANGED <<render_vars, eval_vars, size_vars>>

goToIndex(index) ==
    /\ IF index >= 0 /\ index < Len(nav_history)
       THEN /\ nav_currentIndex' = index
            /\ nav_view' = goToPosition(nav_history[index + 1])
       ELSE UNCHANGED <<nav_currentIndex, nav_view>>
    /\ nav_last' = "goToIndex"
    /\ UNCHANGED <<nav_history, nav_saves>>
    /\ UNCHANGED <<render_vars, eval_vars, size_vars>>

NextNav ==
    \/ saveCurrentPosition
    \/ goBack
    \/ goForward
    \/ \E index \in IndexArgs : goToIndex(index)

SpecNav == InitNav /\ [][NextNav]_vars

\* C30: after any sequence of saveCurrentPosition, goBack, goForward and
\* goToIndex calls the history has at most maxHistory entries and
\* currentIndex is -1 when the history is empty and an index of the history
\* otherwise; immediately after saveCurrentPosition the position saved is
\* the last entry and currentIndex points to it.
C30_NavigationHistoryInvariant ==
    /\ Len(nav_history) <= maxHistory
    /\ IF Len(nav_history) = 0
       THEN nav_currentIndex = -1
       ELSE nav_currentIndex >= 0 /\ nav_currentIndex < Len(nav_history)
    /\ nav_last = "saveCurrentPosition" =>
          /\ Len(nav_history) >= 1
          /\ nav_history[Len(nav_history)] = [view |-> nav_view, saved |-> nav_saves]
          /\ nav_currentIndex = Len(nav_history) - 1

\* a save into a full history whose current entry was the last one: the
\* oldest entry has been dropped
C30_Witness ==
    /\ nav_last = "saveCurrentPosition"
    /\ Len(nav_history) = maxHistory
    /\ nav_saves > maxHistory
    /\ nav_history[1].saved > 1
    /\ nav_currentIndex = maxHistory - 1

=============================================================================
